---- MODULE Spec2Model ----
(***************************************************************************)
(* A model of lib/IRGen/GenObjC.cpp: the per-module caches of selector and *)
(* protocol symbols, the Selector class, Objective-C message sends, method *)
(* type encodings and method descriptors.                                  *)
(*                                                                         *)
(* Texts (selectors, encodings, symbol keys) are sequences of one-         *)
(* character strings, so that prefix tests, character classes and decimal  *)
(* formatting are computed and not assumed.                                *)
(***************************************************************************)
EXTENDS Integers, Sequences, FiniteSets, TLC

VARIABLES
  IGM,   \* the IRGenModule: its caches, its llvm::Module and target facts
  ret    \* the operation that ran last, with its inputs and its results

vars == <<IGM, ret>>

----------------------------------------------------------------------------
(* Bounds of the model.                                                    *)

\* how many selector texts of SelectorPool the declarations and the clients of
\* the module use, besides "dealloc"
NumSelectors == 2
\* how many protocol declarations of ProtocolPool exist
NumProtocols == 1
\* how many leading underscores the selector texts under getFamily have
MaxUnderscores == 2
\* how many characters follow the stem of a selector text under getFamily
MaxSuffix == 2
\* how many parameters a lowered function type has after self and _cmd
MaxRestParams == 2
\* how many elements the tuple of a method's arguments has
MaxArgs == 3
\* how many method names a module may hold when a descriptor is asked for
MaxMethodNames == 3
\* how many forwarding stubs a module may hold when another is asked for
MaxForwarders == 2
\* how many declarations a declaration overrides, one after the other
MaxOverrides == 2

----------------------------------------------------------------------------
(* Texts.                                                                  *)

dealloc == <<"d", "e", "a", "l", "l", "o", "c">>
cxx_construct == <<".", "c", "x", "x", "_", "c", "o", "n", "s", "t", "r", "u", "c", "t">>
cxx_destruct == <<".", "c", "x", "x", "_", "d", "e", "s", "t", "r", "u", "c", "t">>

SelectorPool ==
  << <<"f", "o", "o">>,
     <<"i", "n", "i", "t">>,
     <<"b", "a", "r", ":">>,
     <<"n", "e", "w", "X">> >>

SelectorTexts == {dealloc} \cup {SelectorPool[i] : i \in 1..NumSelectors}

ProtocolPool == << <<"P1">>, <<"P2">>, <<"P3">> >>

Protocols == {ProtocolPool[i] : i \in 1..NumProtocols}

----------------------------------------------------------------------------
(* llvm::Module: globals and pointers to them.                             *)

\* A pointer constant: the identity of the global (or constant) it points to.
Ptr(label, key, uniq) == [label |-> label, key |-> key, uniq |-> uniq]

NullPtr == Ptr("null", <<>>, 0)

\* llvm::ConstantDataArray::getString: constant data, uniqued by its contents.
ConstantString(text) == Ptr("cstring", text, 0)

\* new llvm::GlobalVariable(Module, ..., init, name): always a fresh object;
\* a name already taken in the module is made unique by a numeric suffix.
NewGlobal(module, label, key, init, section) ==
  [label |-> label, key |-> key,
   uniq |-> Cardinality({g \in module : g.label = label /\ g.key = key}),
   init |-> init, section |-> section]

AddrOf(global) == Ptr(global.label, global.key, global.uniq)

GlobalsNamed(module, label, key) ==
  {g \in module : g.label = label /\ g.key = key}

----------------------------------------------------------------------------
(* The symbol caches of IRGenModule.                                       *)

getAddrOfObjCMethodName_notCached(igm, selector) ==
  LET init == ConstantString(selector)
      global == NewGlobal(igm.Module, "L_selector_data", selector, init,
                          "__TEXT,__objc_methname,cstring_literals")
      address == AddrOf(global)
  IN [igm |-> [igm EXCEPT !.Module = @ \cup {global},
                          !.ObjCMethodNames[selector] = address],
      val |-> address]

getAddrOfObjCMethodName(igm, selector) ==
  LET entry == igm.ObjCMethodNames[selector] IN
  IF entry # NullPtr
    THEN [igm |-> igm, val |-> entry]
    ELSE
      LET init == ConstantString(selector)
          global == NewGlobal(igm.Module, "L_selector_data", selector, init,
                              "__TEXT,__objc_methname,cstring_literals")
          address == AddrOf(global)
      IN [igm |-> [igm EXCEPT !.Module = @ \cup {global},
                              !.ObjCMethodNames[selector] = address],
          val |-> address]

getAddrOfObjCSelectorRef_ownName(igm, selector) ==
  LET entry == igm.ObjCSelectorRefs[selector] IN
  IF entry # NullPtr
    THEN [igm |-> igm, val |-> entry]
    ELSE
      LET name == getAddrOfObjCMethodName_notCached(igm, selector)
          init == name.val
          global == NewGlobal(name.igm.Module, "L_selector", selector, init,
                      "__DATA,__objc_selrefs,literal_pointers,no_dead_strip")
      IN [igm |-> [name.igm EXCEPT
                     !.Module = @ \cup {global},
                     !.LLVMUsed = @ \cup {AddrOf(global)},
                     !.ObjCSelectorRefs[selector] = AddrOf(global)],
          val |-> AddrOf(global)]

getAddrOfObjCSelectorRef_initFromString(igm, selector) ==
  LET entry == igm.ObjCSelectorRefs[selector] IN
  IF entry # NullPtr
    THEN [igm |-> igm, val |-> entry]
    ELSE
      LET init == ConstantString(selector)
          global == NewGlobal(igm.Module, "L_selector", selector, init,
                      "__DATA,__objc_selrefs,literal_pointers,no_dead_strip")
      IN [igm |-> [igm EXCEPT
                     !.Module = @ \cup {global},
                     !.LLVMUsed = @ \cup {AddrOf(global)},
                     !.ObjCSelectorRefs[selector] = AddrOf(global)],
          val |-> AddrOf(global)]

getAddrOfObjCSelectorRef(igm, selector) ==
  LET entry == igm.ObjCSelectorRefs[selector] IN
  IF entry # NullPtr
    THEN [igm |-> igm, val |-> entry]
    ELSE
      LET name == getAddrOfObjCMethodName(igm, selector)
          init == name.val
          global == NewGlobal(name.igm.Module, "L_selector", selector, init,
                      "__DATA,__objc_selrefs,literal_pointers,no_dead_strip")
      IN [igm |-> [name.igm EXCEPT
                     !.Module = @ \cup {global},
                     !.LLVMUsed = @ \cup {AddrOf(global)},
                     !.ObjCSelectorRefs[selector] = AddrOf(global)],
          val |-> AddrOf(global)]

\* emitObjCProtocolData (GenClass.cpp): emits the protocol_t record of the
\* protocol into the module and returns its address.
emitObjCProtocolData(igm, proto) ==
  LET global == NewGlobal(igm.Module, "_PROTOCOL_", proto, NullPtr,
                          "__DATA,__objc_const")
  IN [igm |-> [igm EXCEPT !.Module = @ \cup {global}], val |-> AddrOf(global)]

NoPair == [record |-> NullPtr, ref |-> NullPtr]

getObjCProtocolGlobalVars_notInserted(igm, proto) ==
  LET data == emitObjCProtocolData(igm, proto)
      protocolRecord == data.val
      protocolLabel ==
        NewGlobal(data.igm.Module, "l_OBJC_LABEL_PROTOCOL_$_", proto,
                  protocolRecord,
                  "__DATA,__objc_protolist,coalesced,no_dead_strip")
      protocolRef ==
        NewGlobal(data.igm.Module, "l_OBJC_PROTOCOL_REFERENCE_$_", proto,
                  protocolRecord,
                  "__DATA,__objc_protorefs,coalesced,no_dead_strip")
      pair == [record |-> protocolRecord, ref |-> AddrOf(protocolRef)]
  IN [igm |-> [data.igm EXCEPT
                 !.Module = @ \cup {protocolLabel, protocolRef}],
      val |-> pair]

getObjCProtocolGlobalVars(igm, proto) ==
  LET found == igm.ObjCProtocols[proto] IN
  IF found # NoPair
    THEN [igm |-> igm, val |-> found]
    ELSE
      LET data == emitObjCProtocolData(igm, proto)
          protocolRecord == data.val
          protocolLabel ==
            NewGlobal(data.igm.Module, "l_OBJC_LABEL_PROTOCOL_$_", proto,
                      protocolRecord,
                      "__DATA,__objc_protolist,coalesced,no_dead_strip")
          protocolRef ==
            NewGlobal(data.igm.Module, "l_OBJC_PROTOCOL_REFERENCE_$_", proto,
                      protocolRecord,
                      "__DATA,__objc_protorefs,coalesced,no_dead_strip")
          pair == [record |-> protocolRecord, ref |-> AddrOf(protocolRef)]
      IN [igm |-> [data.igm EXCEPT
                     !.Module = @ \cup {protocolLabel, protocolRef},
                     !.ObjCProtocols[proto] = pair],
          val |-> pair]

getAddrOfObjCProtocolRecord(igm, proto) ==
  LET vars0 == getObjCProtocolGlobalVars(igm, proto)
  IN [igm |-> vars0.igm, val |-> vars0.val.record]

getAddrOfObjCProtocolRef(igm, proto) ==
  LET vars0 == getObjCProtocolGlobalVars(igm, proto)
  IN [igm |-> vars0.igm, val |-> vars0.val.ref]

----------------------------------------------------------------------------
(* The Selector class.                                                     *)

\* FOREACH_FAMILY: the families and their prefixes, in the order of the macro.
alloc == <<"a", "l", "l", "o", "c">>
copy == <<"c", "o", "p", "y">>
init == <<"i", "n", "i", "t">>
mutableCopy == <<"m", "u", "t", "a", "b", "l", "e", "C", "o", "p", "y">>
new == <<"n", "e", "w">>

FOREACH_FAMILY ==
  << [LABEL |-> "Alloc", PREFIX |-> alloc],
     [LABEL |-> "Copy", PREFIX |-> copy],
     [LABEL |-> "Init", PREFIX |-> init],
     [LABEL |-> "MutableCopy", PREFIX |-> mutableCopy],
     [LABEL |-> "New", PREFIX |-> new] >>

Family == {"None"} \cup {FOREACH_FAMILY[i].LABEL : i \in DOMAIN FOREACH_FAMILY}

\* islower of <ctype.h>, in the "C" locale, on an ASCII character.
islower(c) ==
  c \in {"a", "b", "c", "d", "e", "f", "g", "h", "i", "j", "k", "l", "m",
         "n", "o", "p", "q", "r", "s", "t", "u", "v", "w", "x", "y", "z"}

\* StringRef::startswith
startswith(text, prefix) ==
  /\ Len(text) >= Len(prefix)
  /\ SubSeq(text, 1, Len(prefix)) = prefix

\* StringRef::substr(1)
substr1(text) == SubSeq(text, 2, Len(text))

hasPrefix_anyNextChar(text, prefix) == startswith(text, prefix)

hasPrefix(text, prefix) ==
  IF ~startswith(text, prefix) THEN FALSE
  ELSE IF Len(text) = Len(prefix) THEN TRUE
  ELSE ~islower(text[Len(prefix) + 1])

\* while (!text.empty() && text[0] == '_') text = text.substr(1);
RECURSIVE stripUnderscores(_)
stripUnderscores(text) ==
  IF text # <<>> /\ text[1] = "_" THEN stripUnderscores(substr1(text))
  ELSE text

\* CHECK_PREFIX for the families from the i-th on, then Family::None.
RECURSIVE checkPrefixes(_, _)
checkPrefixes(text, i) ==
  IF i > Len(FOREACH_FAMILY) THEN "None"
  ELSE IF hasPrefix(text, FOREACH_FAMILY[i].PREFIX) THEN FOREACH_FAMILY[i].LABEL
  ELSE checkPrefixes(text, i + 1)

getFamily(Text) == checkPrefixes(stripUnderscores(Text), 1)

\* The kinds of SILDeclRef and of declaration.
SILDeclRefKinds ==
  {"Func", "Allocator", "Initializer", "EnumElement", "Destroyer",
   "Deallocator", "GlobalAccessor", "DefaultArgGenerator",
   "IVarInitializer", "IVarDestroyer"}

DeclKinds ==
  {"FuncDecl", "ConstructorDecl", "DestructorDecl", "VarDecl",
   "SubscriptDecl", "ClassDecl", "EnumElementDecl"}

\* A Selector whose constructor returned, and one whose constructor ran into
\* llvm_unreachable.
Built(text) == [fatal |-> FALSE, Text |-> text]
Unreachable == [fatal |-> TRUE, Text |-> <<>>]

\* Selector(ValueDecl *methodOrCtorOrDtor)
SelectorOfValueDecl(decl) ==
  IF decl.declKind = "FuncDecl" THEN Built(decl.selector)
  ELSE IF decl.declKind = "ConstructorDecl" THEN Built(decl.selector)
  ELSE IF decl.declKind = "DestructorDecl" THEN Built(dealloc)
  ELSE Unreachable

SelectorOfRef_AllocatorFallsThrough(ref) ==
  CASE ref.kind \in {"Allocator", "DefaultArgGenerator", "EnumElement",
                     "GlobalAccessor", "Destroyer", "Deallocator"} ->
         Built(dealloc)
    [] ref.kind \in {"Func", "Initializer"} -> Built(ref.decl.selector)
    [] ref.kind = "IVarInitializer" -> Built(cxx_construct)
    [] ref.kind = "IVarDestroyer" -> Built(cxx_destruct)

\* Selector(SILDeclRef ref)
SelectorOfRef(ref) ==
  CASE ref.kind \in {"Allocator", "DefaultArgGenerator", "EnumElement",
                     "GlobalAccessor"} -> Unreachable
    [] ref.kind \in {"Destroyer", "Deallocator"} -> Built(dealloc)
    [] ref.kind = "Func" -> Built(ref.decl.selector)
    [] ref.kind = "Initializer" -> Built(ref.decl.selector)
    [] ref.kind = "IVarInitializer" -> Built(cxx_construct)
    [] ref.kind = "IVarDestroyer" -> Built(cxx_destruct)

----------------------------------------------------------------------------
(* Message sends.                                                          *)

ObjCMessageKinds == {"Normal", "Peer", "Super"}

\* An llvm::FunctionType: parameter i of the source is params[i + 1].
FunctionType(result, params, isVarArg) ==
  [result |-> result, params |-> params, isVarArg |-> isVarArg]

ObjCSuperPtrTy == "%objc_super*"

getMsgSendSuperTy_alwaysFirst(fnTy, indirectResult) ==
  FunctionType(fnTy.result, [fnTy.params EXCEPT ![1] = ObjCSuperPtrTy],
               fnTy.isVarArg)

getMsgSendSuperTy(fnTy, indirectResult) ==
  LET args == IF indirectResult
                THEN [fnTy.params EXCEPT ![2] = ObjCSuperPtrTy]
                ELSE [fnTy.params EXCEPT ![1] = ObjCSuperPtrTy]
  IN FunctionType(fnTy.result, args, fnTy.isVarArg)

\* The assertion that opens prepareObjCMethodRootCall.
IsObjCMethodCallRef(method) ==
  method.kind \in {"Initializer", "Func", "Destroyer", "Deallocator"}

prepareObjCMethodRootCall_stretWheneverIndirect(igm, method, origFnType, kind) ==
  LET indirectResult == origFnType.indirectResult
      fnTy == IF kind # "Normal"
                THEN getMsgSendSuperTy(origFnType.fnTy, indirectResult)
                ELSE origFnType.fnTy
      messenger ==
        IF indirectResult
          THEN CASE kind = "Normal" -> "objc_msgSend_stret"
                 [] kind = "Peer" -> "objc_msgSendSuper_stret"
                 [] kind = "Super" -> "objc_msgSendSuper2_stret"
          ELSE CASE kind = "Normal" -> "objc_msgSend"
                 [] kind = "Peer" -> "objc_msgSendSuper"
                 [] kind = "Super" -> "objc_msgSendSuper2"
  IN [messenger |-> messenger, fnTy |-> fnTy]

\* The callee of the CallEmission that prepareObjCMethodRootCall returns: the
\* messenger function, cast to the type fnTy.  origFnType carries what
\* getFunctionType and requiresExternalIndirectResult say of the SIL type.
prepareObjCMethodRootCall(igm, method, origFnType, kind) ==
  LET indirectResult == origFnType.indirectResult
      fnTy == IF kind # "Normal"
                THEN getMsgSendSuperTy(origFnType.fnTy, indirectResult)
                ELSE origFnType.fnTy
      messenger ==
        IF indirectResult /\ igm.ObjCUseStret
          THEN CASE kind = "Normal" -> "objc_msgSend_stret"
                 [] kind = "Peer" -> "objc_msgSendSuper_stret"
                 [] kind = "Super" -> "objc_msgSendSuper2_stret"
          ELSE CASE kind = "Normal" -> "objc_msgSend"
                 [] kind = "Peer" -> "objc_msgSendSuper"
                 [] kind = "Super" -> "objc_msgSendSuper2"
  IN [messenger |-> messenger, fnTy |-> fnTy]

\* An llvm::Value of an argument list: the receiver as it was passed in, the
\* address of an objc_super struct with its two stored fields, or a load
\* through a pointer constant.
Value(tag, receiver, search, from) ==
  [tag |-> tag, receiver |-> receiver, search |-> search, from |-> from]

\* A null SILType, and the SILType of a class or of its metatype.
NoSILType == [isNull |-> TRUE, class |-> "", isMetatype |-> FALSE]
SILTypeOf(class, isMetatype) ==
  [isNull |-> FALSE, class |-> class, isMetatype |-> isMetatype]

emitClassHeapMetadataRef(searchClass) ==
  Ptr("class_metadata", <<searchClass.class>>, 0)

getAddrOfMetaclassObject(searchClassDecl) ==
  Ptr("metaclass", <<searchClassDecl>>, 0)

emitSuperArgument_alwaysClassMetadata(isInstanceMethod, selfValue, searchClass) ==
  Value("objc_super", selfValue, emitClassHeapMetadataRef(searchClass),
        NullPtr)

\* The fields of an objc_super struct in the order of their indices: the
\* store through {0, 0}, then the store through {0, 1}.
ObjCSuperFields(super) == <<super.receiver, super.search>>

\* emitSuperArgument: the value it adds to selfValues.
emitSuperArgument(isInstanceMethod, selfValue, searchClass) ==
  LET self == selfValue
      searchValue == IF isInstanceMethod
                       THEN emitClassHeapMetadataRef(searchClass)
                       ELSE getAddrOfMetaclassObject(searchClass.class)
  IN Value("objc_super", self, searchValue, NullPtr)

\* IRGenFunction::emitObjCSelectorRefLoad (not in this file): a load through
\* the selector reference of the module.
emitObjCSelectorRefLoad(igm, selector) ==
  LET loadSelRef == getAddrOfObjCSelectorRef(igm, selector)
  IN [igm |-> loadSelRef.igm,
      val |-> Value("load", "", NullPtr, loadSelRef.val)]

addObjCMethodCallImplicitArguments_receiverOnly(igm, args, method, self, searchType) ==
  LET selector == SelectorOfRef(method)
      load == emitObjCSelectorRefLoad(igm, selector.Text)
  IN [igm |-> load.igm,
      args |-> args \o <<Value("receiver", self, NullPtr, NullPtr), load.val>>]

addObjCMethodCallImplicitArguments_nameCell(igm, args, method, self, searchType) ==
  LET selector == SelectorOfRef(method)
      isInstanceMethod == \/ method.kind = "Initializer"
                          \/ method.kind = "Deallocator"
                          \/ method.decl.isInstanceMember
      first == IF ~searchType.isNull
                 THEN emitSuperArgument(isInstanceMethod, self, searchType)
                 ELSE Value("receiver", self, NullPtr, NullPtr)
      name == getAddrOfObjCMethodName(igm, selector.Text)
  IN [igm |-> name.igm,
      args |-> (args \o <<first>>) \o <<Value("load", "", NullPtr, name.val)>>]

\* addObjCMethodCallImplicitArguments: the module and the argument list
\* after it.
addObjCMethodCallImplicitArguments(igm, args, method, self, searchType) ==
  LET selector == SelectorOfRef(method)
      isInstanceMethod == \/ method.kind = "Initializer"
                          \/ method.kind = "Deallocator"
                          \/ method.decl.isInstanceMember
      first == IF ~searchType.isNull
                 THEN emitSuperArgument(isInstanceMethod, self, searchType)
                 ELSE Value("receiver", self, NullPtr, NullPtr)
      load == emitObjCSelectorRefLoad(igm, selector.Text)
  IN [igm |-> load.igm, args |-> (args \o <<first>>) \o <<load.val>>]

----------------------------------------------------------------------------
(* Partial application of an Objective-C method.                           *)

ParameterConventions ==
  {"Direct_Unowned", "Direct_Guaranteed", "Direct_Owned",
   "Indirect_In", "Indirect_Out", "Indirect_Inout"}

\* An instruction emitted into a function: what it does, the value it does
\* it to, and the arguments of a call.
Instr(op, arg, args) == [op |-> op, arg |-> arg, args |-> args]

\* The values of the forwarder: its context parameter and the receiver it
\* loads from the context.
ContextParam == "%context"
LoadedSelf == "%context.self"
ClosureData == "%closure"

\* IRGenFunction::emitUnmanagedAlloc(layout, "closure")
emitUnmanagedAlloc(name) == <<Instr("alloc", name, <<>>)>>

\* TypeInfo::initializeFromParams (not in this file) of a loadable type:
\* the value of the explosion is stored into the field as it is.
initializeFromParams(selfParams, fieldAddr) ==
  <<Instr("store", selfParams, <<>>)>>

\* LoadableTypeInfo::loadAsCopy and loadAsTake (not in this file): a copy
\* retains the value it loaded, a take does not.
loadAsCopy(selfAddr) ==
  <<Instr("load", LoadedSelf, <<>>), Instr("retain", LoadedSelf, <<>>)>>
loadAsTake(selfAddr) == <<Instr("load", LoadedSelf, <<>>)>>

\* IRGenFunction::emitRelease
emitRelease(value) == <<Instr("release", value, <<>>)>>

\* What emitObjCPartialApplicationForwarder gives: the module, the function
\* it created and the instructions of its body, or a fatal error.
Forwarder(igm, fatal, fwd, body) ==
  [igm |-> igm, fatal |-> fatal, fwd |-> fwd, body |-> body]

\* The SIL function type of the method: the convention of its last
\* parameter (self), and what getFunctionType and the result's schema say.
SILFunctionType(selfConvention, lowered) ==
  [selfConvention |-> selfConvention, lowered |-> lowered]

\* The parameters of the method after self and _cmd (and after the result
\* slot when the result is indirect): those the partial application leaves
\* to the caller of the closure.
ResidualParamTypes(origMethodType) ==
  LET params == origMethodType.lowered.fnTy.params
      implicit == IF origMethodType.lowered.indirectResult THEN 3 ELSE 2
  IN SubSeq(params, implicit + 1, Len(params))

\* The i-th parameter of a function, as a value.
Param(type, i) == Value("param", type, NullPtr, Ptr("param", <<>>, i))

\* IRGenFunction::collectParameters of the forwarder: the result slot when
\* the result is indirect, the residual parameters, and the context last.
collectParameters(origMethodType) ==
  LET slot == IF origMethodType.lowered.indirectResult
                THEN <<"%sret*">> ELSE <<>>
      types == (slot \o ResidualParamTypes(origMethodType))
                 \o <<ContextParam>>
  IN [i \in 1..Len(types) |-> Param(types[i], i)]

\* Explosion::takeLast, and what claimAll gives after takeLast and after
\* the claimNext of the indirect return address, when there is one.
takeLast(params) == params[Len(params)]
claimAll(params, indirectReturn) ==
  SubSeq(params, IF indirectReturn THEN 2 ELSE 1, Len(params) - 1)

emitObjCPartialApplicationForwarder_alwaysTakes(igm, method, origMethodType) ==
  LET fwd == NewGlobal(igm.Module, "_TPAo", <<>>, NullPtr, "")
      created == [igm EXCEPT !.Module = @ \cup {fwd}]
      convention == origMethodType.selfConvention
  IN
  IF convention \notin {"Direct_Unowned", "Direct_Guaranteed", "Direct_Owned"}
    THEN Forwarder(created, TRUE, AddrOf(fwd), <<>>)
  ELSE
    LET retainsSelf == FALSE
        params == collectParameters(origMethodType)
        context == takeLast(params).receiver
        selfParams == IF retainsSelf THEN loadAsCopy(context)
                      ELSE loadAsTake(context)
        self == LoadedSelf
        indirectReturn == origMethodType.lowered.indirectResult
        emission == prepareObjCMethodRootCall(created, method,
                                              origMethodType.lowered, "Normal")
        implicit == addObjCMethodCallImplicitArguments(created, <<>>, method,
                                                       self, NoSILType)
        call == <<Instr("call", emission.messenger,
                        implicit.args \o claimAll(params, indirectReturn))>>
        exit == IF indirectReturn
                  THEN (emitRelease(context))
                         \o <<Instr("ret", "void", <<>>)>>
                  ELSE emitRelease(context) \o <<Instr("ret", "result", <<>>)>>
    IN Forwarder(implicit.igm, FALSE, AddrOf(fwd),
                 (selfParams \o call) \o exit)

emitObjCPartialApplicationForwarder_leaksAfterIndirect(igm, method, origMethodType) ==
  LET fwd == NewGlobal(igm.Module, "_TPAo", <<>>, NullPtr, "")
      created == [igm EXCEPT !.Module = @ \cup {fwd}]
      convention == origMethodType.selfConvention
  IN
  IF convention \notin {"Direct_Unowned", "Direct_Guaranteed", "Direct_Owned"}
    THEN Forwarder(created, TRUE, AddrOf(fwd), <<>>)
  ELSE
    LET retainsSelf == convention # "Direct_Unowned"
        params == collectParameters(origMethodType)
        context == takeLast(params).receiver
        selfParams == IF retainsSelf THEN loadAsCopy(context)
                      ELSE loadAsTake(context)
        self == LoadedSelf
        indirectReturn == origMethodType.lowered.indirectResult
        emission == prepareObjCMethodRootCall(created, method,
                                              origMethodType.lowered, "Normal")
        implicit == addObjCMethodCallImplicitArguments(created, <<>>, method,
                                                       self, NoSILType)
        call == <<Instr("call", emission.messenger,
                        implicit.args \o claimAll(params, indirectReturn))>>
        exit == IF indirectReturn
                  THEN (<<>>)
                         \o <<Instr("ret", "void", <<>>)>>
                  ELSE emitRelease(context) \o <<Instr("ret", "result", <<>>)>>
    IN Forwarder(implicit.igm, FALSE, AddrOf(fwd),
                 (selfParams \o call) \o exit)

\* emitObjCPartialApplicationForwarder: a new function _TPAo that loads self
\* from the context, sends the message and releases the context.
emitObjCPartialApplicationForwarder_forwardsResultSlot(igm, method, origMethodType) ==
  LET fwd == NewGlobal(igm.Module, "_TPAo", <<>>, NullPtr, "")
      created == [igm EXCEPT !.Module = @ \cup {fwd}]
      convention == origMethodType.selfConvention
  IN
  IF convention \notin {"Direct_Unowned", "Direct_Guaranteed", "Direct_Owned"}
    THEN Forwarder(created, TRUE, AddrOf(fwd), <<>>)
  ELSE
    LET retainsSelf == convention # "Direct_Unowned"
        params == collectParameters(origMethodType)
        context == takeLast(params).receiver
        selfParams == IF retainsSelf THEN loadAsCopy(context)
                      ELSE loadAsTake(context)
        self == LoadedSelf
        indirectReturn == origMethodType.lowered.indirectResult
        emission == prepareObjCMethodRootCall(created, method,
                                              origMethodType.lowered, "Normal")
        implicit == addObjCMethodCallImplicitArguments(created, <<>>, method,
                                                       self, NoSILType)
        call == <<Instr("call", emission.messenger,
                        implicit.args \o claimAll(params, FALSE))>>
        exit == IF indirectReturn
                  THEN (emitRelease(context))
                         \o <<Instr("ret", "void", <<>>)>>
                  ELSE emitRelease(context) \o <<Instr("ret", "result", <<>>)>>
    IN Forwarder(implicit.igm, FALSE, AddrOf(fwd),
                 (selfParams \o call) \o exit)

emitObjCPartialApplicationForwarder(igm, method, origMethodType) ==
  LET fwd == NewGlobal(igm.Module, "_TPAo", <<>>, NullPtr, "")
      created == [igm EXCEPT !.Module = @ \cup {fwd}]
      convention == origMethodType.selfConvention
  IN
  IF convention \notin {"Direct_Unowned", "Direct_Guaranteed", "Direct_Owned"}
    THEN Forwarder(created, TRUE, AddrOf(fwd), <<>>)
  ELSE
    LET retainsSelf == convention # "Direct_Unowned"
        params == collectParameters(origMethodType)
        context == takeLast(params).receiver
        selfParams == IF retainsSelf THEN loadAsCopy(context)
                      ELSE loadAsTake(context)
        self == LoadedSelf
        indirectReturn == origMethodType.lowered.indirectResult
        emission == prepareObjCMethodRootCall(created, method,
                                              origMethodType.lowered, "Normal")
        implicit == addObjCMethodCallImplicitArguments(created, <<>>, method,
                                                       self, NoSILType)
        call == <<Instr("call", emission.messenger,
                        implicit.args \o claimAll(params, indirectReturn))>>
        exit == IF indirectReturn
                  THEN (emitRelease(context))
                         \o <<Instr("ret", "void", <<>>)>>
                  ELSE emitRelease(context) \o <<Instr("ret", "result", <<>>)>>
    IN Forwarder(implicit.igm, FALSE, AddrOf(fwd),
                 (selfParams \o call) \o exit)

\* What a partial application leaves behind: the module, the instructions
\* emitted into the caller, the body of the forwarder, and the explosion
\* (forwarder, context) handed back.
PartialApplication(forwarder, code) ==
  [igm |-> forwarder.igm, fatal |-> forwarder.fatal,
   code |-> code,
   forwarder |-> forwarder.body,
   out |-> IF forwarder.fatal THEN <<>>
           ELSE <<forwarder.fwd, Ptr(ClosureData, <<>>, 0)>>]

emitObjCPartialApplication_copiesReceiver(igm, method, origMethodType, self) ==
  LET data == emitUnmanagedAlloc(ClosureData)
      initialize == <<Instr("retain", self, <<>>)>> \o initializeFromParams(self, ClosureData)
  IN PartialApplication(emitObjCPartialApplicationForwarder(igm, method,
                                                            origMethodType),
                        data \o initialize)

\* emitObjCPartialApplication: the instructions it emits into the caller,
\* the body of the forwarder it creates and the explosion it hands back.
emitObjCPartialApplication(igm, method, origMethodType, self) ==
  LET data == emitUnmanagedAlloc(ClosureData)
      initialize == initializeFromParams(self, ClosureData)
  IN PartialApplication(emitObjCPartialApplicationForwarder(igm, method,
                                                            origMethodType),
                        data \o initialize)

----------------------------------------------------------------------------
(* Method type encodings.                                                  *)

\* The types a signature is made of.  GenClangType gives no Clang type for
\* "Unknown".
TypeNames == {"Void", "Int32", "Int64", "Object", "Struct", "Unknown"}

\* GenClangType::visit: is the Clang type of T null?
clangTypeIsNull(T) == T = "Unknown"

\* clang::ASTContext::getObjCEncodingForType: the text it appends.
getObjCEncodingForType(T) ==
  CASE T = "Void" -> <<"v">>
    [] T = "Int32" -> <<"i">>
    [] T = "Int64" -> <<"q">>
    [] T = "Object" -> <<"@">>
    [] T = "Struct" -> <<"{", "S", "=", "q", "q", "}">>

\* clang::ASTContext::getObjCEncodingTypeSize, in bytes.
getObjCEncodingTypeSize(igm, T) ==
  CASE T = "Void" -> 0
    [] T = "Int32" -> 4
    [] T = "Int64" -> 8
    [] T = "Object" -> igm.PointerSize
    [] T = "Struct" -> 16

Digits == <<"0", "1", "2", "3", "4", "5", "6", "7", "8", "9">>

\* llvm::itostr of a number that is not negative.
RECURSIVE itostr(_)
itostr(X) ==
  IF X < 10 THEN <<Digits[X + 1]>>
  ELSE itostr(X \div 10) \o <<Digits[(X % 10) + 1]>>

\* IRGenModule::getAddrOfGlobalString (not in this file): one global per
\* distinct string of the module.
getAddrOfGlobalString(igm, data) ==
  [igm |-> [igm EXCEPT !.GlobalStrings = @ \cup {data}],
   val |-> Ptr("str", data, 0)]

\* The input of a function type: a tuple of elements, a parenthesized type
\* or a plain type (elts then holds the one type).
InputType(tag, elts) == [tag |-> tag, elts |-> elts]

\* The function type handed to GetObjCEncodingForMethodType.
MethodType(input, result) == [input |-> input, result |-> result]

\* The first loop over a tuple: the sum of the sizes, or null.
RECURSIVE sumParmSizes(_, _, _, _)
sumParmSizes(igm, elts, i, ParmOffset) ==
  IF i > Len(elts) THEN [isNull |-> FALSE, ParmOffset |-> ParmOffset]
  ELSE IF clangTypeIsNull(elts[i]) THEN [isNull |-> TRUE, ParmOffset |-> 0]
  ELSE LET sz == getObjCEncodingTypeSize(igm, elts[i]) IN
       IF sz = 0 THEN sumParmSizes(igm, elts, i + 1, ParmOffset)
       ELSE sumParmSizes(igm, elts, i + 1, ParmOffset + sz)

\* The second loop over a tuple: the text with the arguments appended, or
\* null.
RECURSIVE appendParms(_, _, _, _, _)
appendParms(igm, elts, i, ParmOffset, TypeStr) ==
  IF i > Len(elts) THEN [isNull |-> FALSE, TypeStr |-> TypeStr]
  ELSE IF clangTypeIsNull(elts[i]) THEN [isNull |-> TRUE, TypeStr |-> <<>>]
  ELSE appendParms(igm, elts, i + 1,
                   ParmOffset + getObjCEncodingTypeSize(igm, elts[i]),
                   (TypeStr \o getObjCEncodingForType(elts[i]))
                     \o itostr(ParmOffset))

MethodTypeEncoding_oneParmOffset(igm, T) ==
  LET cnull == [isNull |-> TRUE, TypeStr |-> <<>>]
      PtrSize == igm.PointerSize
  IN
  IF clangTypeIsNull(T.result) THEN cnull
  ELSE
    LET TypeStr0 == getObjCEncodingForType(T.result)
        ParmOffset0 == 2 * PtrSize
    IN
    IF T.input.tag = "tuple" THEN
      LET sum == sumParmSizes(igm, T.input.elts, 1, ParmOffset0) IN
      IF sum.isNull THEN cnull
      ELSE appendParms(igm, T.input.elts, 1, sum.ParmOffset,
                       ((TypeStr0 \o itostr(sum.ParmOffset))
                          \o <<"@", "0", ":">>) \o itostr(PtrSize))
    ELSE
      LET ArgType == T.input.elts[1] IN
      IF clangTypeIsNull(ArgType) THEN cnull
      ELSE
        LET sz == getObjCEncodingTypeSize(igm, ArgType)
            ParmOffset1 == IF sz # 0 THEN ParmOffset0 + sz ELSE ParmOffset0
            TypeStr1 == ((TypeStr0 \o itostr(ParmOffset1))
                           \o <<"@", "0", ":">>) \o itostr(PtrSize)
        IN [isNull |-> FALSE,
            TypeStr |-> (TypeStr1 \o getObjCEncodingForType(ArgType))
                          \o itostr(ParmOffset1)]

MethodTypeEncoding_singleKeepsOffset(igm, T) ==
  LET cnull == [isNull |-> TRUE, TypeStr |-> <<>>]
      PtrSize == igm.PointerSize
  IN
  IF clangTypeIsNull(T.result) THEN cnull
  ELSE
    LET TypeStr0 == getObjCEncodingForType(T.result)
        ParmOffset0 == 2 * PtrSize
    IN
    IF T.input.tag = "tuple" THEN
      LET sum == sumParmSizes(igm, T.input.elts, 1, ParmOffset0) IN
      IF sum.isNull THEN cnull
      ELSE appendParms(igm, T.input.elts, 1, 2 * PtrSize,
                       ((TypeStr0 \o itostr(sum.ParmOffset))
                          \o <<"@", "0", ":">>) \o itostr(PtrSize))
    ELSE
      LET ArgType == T.input.elts[1] IN
      IF clangTypeIsNull(ArgType) THEN cnull
      ELSE
        LET sz == getObjCEncodingTypeSize(igm, ArgType)
            ParmOffset1 == IF sz # 0 THEN ParmOffset0 + sz ELSE ParmOffset0
            TypeStr1 == ((TypeStr0 \o itostr(ParmOffset1))
                           \o <<"@", "0", ":">>) \o itostr(PtrSize)
        IN [isNull |-> FALSE,
            TypeStr |-> (TypeStr1 \o getObjCEncodingForType(ArgType))
                          \o itostr(ParmOffset1)]

\* GetObjCEncodingForMethodType: the text it builds, or null.
MethodTypeEncoding(igm, T) ==
  LET cnull == [isNull |-> TRUE, TypeStr |-> <<>>]
      PtrSize == igm.PointerSize
  IN
  IF clangTypeIsNull(T.result) THEN cnull
  ELSE
    LET TypeStr0 == getObjCEncodingForType(T.result)
        ParmOffset0 == 2 * PtrSize
    IN
    IF T.input.tag = "tuple" THEN
      LET sum == sumParmSizes(igm, T.input.elts, 1, ParmOffset0) IN
      IF sum.isNull THEN cnull
      ELSE appendParms(igm, T.input.elts, 1, 2 * PtrSize,
                       ((TypeStr0 \o itostr(sum.ParmOffset))
                          \o <<"@", "0", ":">>) \o itostr(PtrSize))
    ELSE
      LET ArgType == T.input.elts[1] IN
      IF clangTypeIsNull(ArgType) THEN cnull
      ELSE
        LET sz == getObjCEncodingTypeSize(igm, ArgType)
            ParmOffset1 == IF sz # 0 THEN ParmOffset0 + sz ELSE ParmOffset0
            TypeStr1 == ((TypeStr0 \o itostr(ParmOffset1))
                           \o <<"@", "0", ":">>) \o itostr(PtrSize)
            ParmOffset2 == 2 * PtrSize
        IN [isNull |-> FALSE,
            TypeStr |-> (TypeStr1 \o getObjCEncodingForType(ArgType))
                          \o itostr(ParmOffset2)]

GetObjCEncodingForMethodType(igm, T) ==
  LET enc == MethodTypeEncoding(igm, T) IN
  IF enc.isNull THEN [igm |-> igm, val |-> NullPtr]
  ELSE getAddrOfGlobalString(igm, enc.TypeStr)

----------------------------------------------------------------------------
(* Method descriptors.                                                     *)

\* Types of declarations: a function type has an input and a result, and
\* the result of a method's type is the function type of the method proper
\* ('self' is curried).
ResultType(name) ==
  [isFn |-> FALSE, input |-> InputType("plain", <<>>), result |-> name]
ResultFunction(input, name) ==
  [isFn |-> TRUE, input |-> input, result |-> name]
DeclType(input, result) == [input |-> input, result |-> result]

SelfInput == InputType("plain", <<"Object">>)

\* A declaration as this file reads it.
Decl(name, declKind, selector, inProtocol, isInstanceMember, type) ==
  [name |-> name, declKind |-> declKind, selector |-> selector,
   inProtocol |-> inProtocol, isInstanceMember |-> isInstanceMember,
   type |-> type]

\* A SILDeclRef.
SILDeclRef(decl, kind) == [decl |-> decl, kind |-> kind]

\* findSwiftAsObjCThunk: finds (or declares) the IR function of the ref
\* and makes it internal and unnamed.
findSwiftAsObjCThunk(igm, ref) ==
  LET key == <<ref.decl.name, ref.kind>>
      fn == [key |-> key, linkage |-> "InternalLinkage", unnamedAddr |-> TRUE]
  IN [igm |-> [igm EXCEPT !.Functions = {f \in @ : f.key # key} \cup {fn}],
      val |-> Ptr("fn", key, 0)]

\* getObjCMethodPointer, for a FuncDecl, a ConstructorDecl and a
\* DestructorDecl.
getObjCMethodPointer(igm, method) ==
  CASE method.declKind = "FuncDecl" ->
         IF method.inProtocol THEN [igm |-> igm, val |-> NullPtr]
         ELSE findSwiftAsObjCThunk(igm, SILDeclRef(method, "Func"))
    [] method.declKind = "ConstructorDecl" ->
         IF method.inProtocol THEN [igm |-> igm, val |-> NullPtr]
         ELSE findSwiftAsObjCThunk(igm, SILDeclRef(method, "Initializer"))
    [] method.declKind = "DestructorDecl" ->
         findSwiftAsObjCThunk(igm, SILDeclRef(method, "Deallocator"))

emitObjCMethodDescriptorParts_stopsAtNullEncoding(igm, method) ==
  LET selector == SelectorOfValueDecl(method)
      name == getAddrOfObjCMethodName(igm, selector.Text)
      methodType ==
        IF method.declKind # "DestructorDecl"
          THEN MethodType(method.type.result.input, method.type.result.result)
          ELSE MethodType(method.type.input, method.type.result.result)
      encoding == GetObjCEncodingForMethodType(name.igm, methodType)
      pointer == getObjCMethodPointer(encoding.igm, method)
  IN IF encoding.val = NullPtr
       THEN [igm |-> encoding.igm, selectorRef |-> name.val,
             atEncoding |-> encoding.val, impl |-> NullPtr]
       ELSE [igm |-> pointer.igm, selectorRef |-> name.val,
             atEncoding |-> encoding.val, impl |-> pointer.val]

\* emitObjCMethodDescriptorParts, for an AbstractFunctionDecl.
emitObjCMethodDescriptorParts(igm, method) ==
  LET selector == SelectorOfValueDecl(method)
      name == getAddrOfObjCMethodName(igm, selector.Text)
      methodType ==
        IF method.declKind # "DestructorDecl"
          THEN MethodType(method.type.result.input, method.type.result.result)
          ELSE MethodType(method.type.input, method.type.result.result)
      encoding == GetObjCEncodingForMethodType(name.igm, methodType)
      pointer == getObjCMethodPointer(encoding.igm, method)
  IN [igm |-> pointer.igm, selectorRef |-> name.val,
      atEncoding |-> encoding.val, impl |-> pointer.val]

\* llvm::ConstantStruct::getAnon over the fields, and the null constant.
ConstantStruct(fields) == [isNull |-> FALSE, fields |-> fields]
NullConstant == [isNull |-> TRUE, fields |-> <<>>]

emitObjCMethodDescriptor_encodingFirst(igm, method) ==
  LET parts == emitObjCMethodDescriptorParts(igm, method) IN
  [igm |-> parts.igm,
   val |-> ConstantStruct(<<parts.atEncoding, parts.selectorRef, parts.impl>>)]

\* emitObjCMethodDescriptor: the method_t of a method, an initializer or a
\* destructor.
emitObjCMethodDescriptor(igm, method) ==
  LET parts == emitObjCMethodDescriptorParts(igm, method) IN
  [igm |-> parts.igm,
   val |-> ConstantStruct(<<parts.selectorRef, parts.atEncoding, parts.impl>>)]

\* An AbstractStorageDecl (a VarDecl or a SubscriptDecl) as this file reads
\* it: the selectors and the names of its accessors, its context, whether it
\* can be set, and its type (the element type of a subscript).
StorageDecl(name, declKind, getter, setter, inProtocol, isSettable, type) ==
  [name |-> name, declKind |-> declKind, getter |-> getter,
   setter |-> setter, inProtocol |-> inProtocol, isSettable |-> isSettable,
   type |-> type]

\* Selector(AbstractStorageDecl *asd, ForGetter_t) and (..., ForSetter_t)
SelectorForGetter(asd) == Built(asd.getter.selector)
SelectorForSetter(asd) == Built(asd.setter.selector)

\* A result of a function that can stop at an assertion.
Returned(igm, val) == [igm |-> igm, val |-> val, fatal |-> FALSE]
AssertionFailed(igm) == [igm |-> igm, val |-> NullPtr, fatal |-> TRUE]

\* getObjCGetterPointer
getObjCGetterPointer(igm, property) ==
  IF property.inProtocol THEN Returned(igm, NullPtr)
  ELSE LET fn == findSwiftAsObjCThunk(igm, SILDeclRef(property.getter, "Func"))
       IN Returned(fn.igm, fn.val)

\* getObjCSetterPointer
getObjCSetterPointer(igm, property) ==
  IF property.inProtocol THEN Returned(igm, NullPtr)
  ELSE IF ~property.isSettable THEN AssertionFailed(igm)
  ELSE LET fn == findSwiftAsObjCThunk(igm, SILDeclRef(property.setter, "Func"))
       IN Returned(fn.igm, fn.val)

\* The three references a descriptor-parts function writes through:
\* selectorRef, atEncoding and impl.
Parts(igm, selectorRef, atEncoding, impl, fatal) ==
  [igm |-> igm, selectorRef |-> selectorRef, atEncoding |-> atEncoding,
   impl |-> impl, fatal |-> fatal]

\* emitObjCGetterDescriptorParts, for a VarDecl and for a SubscriptDecl.
\* out holds what the three references held when the function was entered.
emitObjCGetterDescriptorParts(igm, property, out) ==
  LET name == getAddrOfObjCMethodName(igm, SelectorForGetter(property).Text)
  IN
  CASE property.declKind = "VarDecl" ->
         IF clangTypeIsNull(property.type)
           THEN Parts(name.igm, name.val, NullPtr, out.impl, FALSE)
           ELSE
             LET PtrSize == igm.PointerSize
                 ParmOffset == 2 * PtrSize
                 TypeStr == ((getObjCEncodingForType(property.type)
                                \o itostr(ParmOffset))
                               \o <<"@", "0", ":">>) \o itostr(PtrSize)
                 encoding == getAddrOfGlobalString(name.igm, TypeStr)
                 pointer == getObjCGetterPointer(encoding.igm, property)
             IN Parts(pointer.igm, name.val, encoding.val, pointer.val,
                      pointer.fatal)
    [] property.declKind = "SubscriptDecl" ->
         LET pointer == getObjCGetterPointer(name.igm, property)
         IN Parts(pointer.igm, name.val, NullPtr, pointer.val, pointer.fatal)

\* emitObjCSetterDescriptorParts, for a VarDecl and for a SubscriptDecl.
emitObjCSetterDescriptorParts(igm, property, out) ==
  IF ~property.isSettable
    THEN Parts(igm, out.selectorRef, out.atEncoding, out.impl, TRUE)
  ELSE
  LET name == getAddrOfObjCMethodName(igm, SelectorForSetter(property).Text)
  IN
  CASE property.declKind = "VarDecl" ->
         IF clangTypeIsNull(property.type)
           THEN Parts(name.igm, name.val, NullPtr, out.impl, FALSE)
           ELSE
             LET PtrSize == igm.PointerSize
                 sz == getObjCEncodingTypeSize(igm, property.type)
                 ParmOffset1 == IF sz # 0 THEN 2 * PtrSize + sz
                                ELSE 2 * PtrSize
                 TypeStr1 == ((getObjCEncodingForType("Void")
                                 \o itostr(ParmOffset1))
                                \o <<"@", "0", ":">>) \o itostr(PtrSize)
                 ParmOffset2 == 2 * PtrSize
                 TypeStr == (TypeStr1 \o getObjCEncodingForType(property.type))
                              \o itostr(ParmOffset2)
                 encoding == getAddrOfGlobalString(name.igm, TypeStr)
                 pointer == getObjCSetterPointer(encoding.igm, property)
             IN Parts(pointer.igm, name.val, encoding.val, pointer.val,
                      pointer.fatal)
    [] property.declKind = "SubscriptDecl" ->
         LET pointer == getObjCSetterPointer(name.igm, property)
         IN Parts(pointer.igm, name.val, NullPtr, pointer.val, pointer.fatal)

\* A pointer that points to no llvm::Constant.
InvalidPtr == Ptr("invalid", <<>>, 0)

\* What emitObjCPropertyMethodDescriptors and
\* emitObjCSubscriptMethodDescriptors return: the getter and the setter
\* descriptor.
DescriptorPair(igm, getter, setter, fatal) ==
  [igm |-> igm, getter |-> getter, setter |-> setter, fatal |-> fatal]

\* emitObjCPropertyMethodDescriptors and emitObjCSubscriptMethodDescriptors.
\* undef holds the values of the locals selectorRef, atEncoding and impl,
\* which are declared without an initializer.  ConstantStruct::getAnon reads
\* the type of each field through its pointer.
emitObjCPropertyMethodDescriptors(igm, property, undef) ==
  LET get == emitObjCGetterDescriptorParts(igm, property, undef)
      getter == ConstantStruct(<<get.selectorRef, get.atEncoding, get.impl>>)
  IN
  IF get.fatal \/ get.impl = InvalidPtr
    THEN DescriptorPair(get.igm, NullConstant, NullConstant, TRUE)
  ELSE IF property.isSettable
    THEN LET set == emitObjCSetterDescriptorParts(get.igm, property, get)
         IN DescriptorPair(set.igm, getter,
                           ConstantStruct(<<set.selectorRef, set.atEncoding,
                                            set.impl>>),
                           set.fatal)
    ELSE DescriptorPair(get.igm, getter, NullConstant, FALSE)

\* GetObjCEncodingForType
GetObjCEncodingForType(igm, T) ==
  IF ~clangTypeIsNull(T)
    THEN getAddrOfGlobalString(igm, getObjCEncodingForType(T))
    ELSE [igm |-> igm, val |-> NullPtr]

\* A ClassDecl as emitObjCIVarInitDestroyDescriptor reads it: the hooks that
\* were synthesized for it and the type of its destructor.
ClassDecl(name, hasIVarInitializer, hasIVarDestroyer, destructorType) ==
  [name |-> name, hasIVarInitializer |-> hasIVarInitializer,
   hasIVarDestroyer |-> hasIVarDestroyer, destructorType |-> destructorType]

\* An Optional<llvm::Constant*>.
Nothing == [present |-> FALSE, val |-> NullConstant]
Some(val) == [present |-> TRUE, val |-> val]

\* IRGenModule::getAddrOfObjCIVarInitDestroy (not in this file), for
\* NotForDefinition: the hook of the class if one was synthesized.
getAddrOfObjCIVarInitDestroy(igm, cd, isDestroyer) ==
  IF (IF isDestroyer THEN cd.hasIVarDestroyer ELSE cd.hasIVarInitializer)
    THEN [present |-> TRUE,
          val |-> Ptr("fn", <<cd.name, IF isDestroyer THEN "IVarDestroyer"
                                       ELSE "IVarInitializer">>, 0)]
    ELSE [present |-> FALSE, val |-> NullPtr]

emitObjCIVarInitDestroyDescriptor_selectorFirst(igm, cd, isDestroyer) ==
  LET objcImpl == getAddrOfObjCIVarInitDestroy(igm, cd, isDestroyer)
      declRef == SILDeclRef(cd, IF isDestroyer THEN "IVarDestroyer"
                                ELSE "IVarInitializer")
      name == getAddrOfObjCMethodName(igm, SelectorOfRef(declRef).Text)
      encoding == GetObjCEncodingForType(name.igm, cd.destructorType)
  IN
  IF ~objcImpl.present THEN [igm |-> name.igm, result |-> Nothing]
  ELSE [igm |-> encoding.igm,
        result |-> Some(ConstantStruct(<<name.val, encoding.val,
                                         objcImpl.val>>))]

\* emitObjCIVarInitDestroyDescriptor
emitObjCIVarInitDestroyDescriptor(igm, cd, isDestroyer) ==
  LET objcImpl == getAddrOfObjCIVarInitDestroy(igm, cd, isDestroyer) IN
  IF ~objcImpl.present THEN [igm |-> igm, result |-> Nothing]
  ELSE
    LET declRef == SILDeclRef(cd, IF isDestroyer THEN "IVarDestroyer"
                                  ELSE "IVarInitializer")
        name == getAddrOfObjCMethodName(igm, SelectorOfRef(declRef).Text)
        encoding == GetObjCEncodingForType(name.igm, cd.destructorType)
    IN [igm |-> encoding.igm,
        result |-> Some(ConstantStruct(<<name.val, encoding.val,
                                         objcImpl.val>>))]

\* The declarations of the module being compiled.
DeclPool ==
  << Decl("C.deinit", "DestructorDecl", <<>>, FALSE, TRUE,
          DeclType(SelfInput, ResultType("Void"))),
     Decl("C.foo", "FuncDecl", SelectorPool[1], FALSE, TRUE,
          DeclType(SelfInput,
                   ResultFunction(InputType("tuple", <<>>), "Void"))),
     Decl("P.foo", "FuncDecl", SelectorPool[1], TRUE, FALSE,
          DeclType(SelfInput,
                   ResultFunction(InputType("tuple", <<"Int64", "Unknown">>),
                                  "Int32"))),
     Decl("C.init", "ConstructorDecl", SelectorPool[2], FALSE, FALSE,
          DeclType(SelfInput,
                   ResultFunction(InputType("paren", <<"Int32">>), "Object"))),
     Decl("C.bar", "FuncDecl", SelectorPool[3], FALSE, TRUE,
          DeclType(SelfInput,
                   ResultFunction(InputType("plain", <<"Struct">>), "Struct"))),
     Decl("P.newX", "FuncDecl", SelectorPool[4], TRUE, TRUE,
          DeclType(SelfInput,
                   ResultFunction(InputType("tuple", <<"Object">>), "Object"))) >>

\* The declarations whose selectors the bound admits.
Decls ==
  {i \in DOMAIN DeclPool :
     \/ DeclPool[i].declKind = "DestructorDecl"
     \/ DeclPool[i].selector \in SelectorTexts}

----------------------------------------------------------------------------
(* The state machine of one module.                                        *)

\* A freshly constructed IRGenModule: empty caches, an empty llvm::Module.
InitIGM(ptrSize, useStret) ==
  [ObjCMethodNames |-> [s \in SelectorTexts |-> NullPtr],
   ObjCSelectorRefs |-> [s \in SelectorTexts |-> NullPtr],
   ObjCProtocols |-> [p \in Protocols |-> NoPair],
   Module |-> {},
   LLVMUsed |-> {},
   GlobalStrings |-> {},
   Functions |-> {},
   PointerSize |-> ptrSize,
   ObjCUseStret |-> useStret]

\* No operation is running and no result is pending.
Idle == [op |-> "none"]

\* The operations of this file run one at a time, each to its end: the next
\* one starts when the caller has taken the results of the last.
Continue ==
  /\ ret # Idle
  /\ ret' = Idle
  /\ UNCHANGED IGM

Init ==
  /\ \E ptrSize \in {4, 8}, useStret \in BOOLEAN :
       IGM = InitIGM(ptrSize, useStret)
  /\ ret = Idle

\* A request to one of the caches: the call, the value handed back and the
\* number of globals the call added to the module.
Request(op, key, r) ==
  /\ ret = Idle
  /\ IGM' = r.igm
  /\ ret' = [op |-> op, key |-> key, val |-> r.val,
             created |-> Cardinality(r.igm.Module \ IGM.Module)]

GetAddrOfObjCMethodName ==
  \E selector \in SelectorTexts :
    Request("getAddrOfObjCMethodName", selector,
            getAddrOfObjCMethodName(IGM, selector))

GetAddrOfObjCSelectorRef ==
  \E selector \in SelectorTexts :
    Request("getAddrOfObjCSelectorRef", selector,
            getAddrOfObjCSelectorRef(IGM, selector))

GetObjCProtocolGlobalVars ==
  \E proto \in Protocols :
    Request("getObjCProtocolGlobalVars", proto,
            getObjCProtocolGlobalVars(IGM, proto))

GetAddrOfObjCProtocolRecord ==
  \E proto \in Protocols :
    Request("getAddrOfObjCProtocolRecord", proto,
            getAddrOfObjCProtocolRecord(IGM, proto))

GetAddrOfObjCProtocolRef ==
  \E proto \in Protocols :
    Request("getAddrOfObjCProtocolRef", proto,
            getAddrOfObjCProtocolRef(IGM, proto))

\* A method descriptor is asked for (emitObjCMethodDescriptor).
EmitObjCMethodDescriptorParts ==
  \E d \in Decls :
    LET parts == emitObjCMethodDescriptorParts(IGM, DeclPool[d]) IN
    /\ ret = Idle
    /\ IGM' = parts.igm
    /\ ret' = [op |-> "emitObjCMethodDescriptorParts", decl |-> d,
               selectorRef |-> parts.selectorRef,
               atEncoding |-> parts.atEncoding, impl |-> parts.impl]

\* The SILDeclRefs a message can be sent to.
MethodRefs ==
  {r \in Decls \X {"Func", "Initializer", "Destroyer", "Deallocator"} :
     \/ DeclPool[r[1]].declKind = "FuncDecl" /\ r[2] = "Func"
     \/ DeclPool[r[1]].declKind = "ConstructorDecl" /\ r[2] = "Initializer"
     \/ DeclPool[r[1]].declKind = "DestructorDecl"
          /\ r[2] \in {"Destroyer", "Deallocator"}}

Receivers == {"%self"}

\* What IGM.getFunctionType and requiresExternalIndirectResult give for the
\* SIL type of an Objective-C method: the result slot when the result is
\* indirect, then self and _cmd, then the arguments.
LoweredFnType(indirectResult, rest, isVarArg) ==
  [indirectResult |-> indirectResult,
   fnTy |-> FunctionType(IF indirectResult THEN "void" ELSE "i64",
                         ((IF indirectResult THEN <<"%sret*">> ELSE <<>>)
                            \o <<"%objc_object*", "i8*">>) \o rest,
                         isVarArg)]

\* The type to start the search at: the metatype for a type-level method.
SearchTypeOf(method) ==
  SILTypeOf("Base", ~(\/ method.kind = "Initializer"
                      \/ method.kind = "Deallocator"
                      \/ method.decl.isInstanceMember))

\* The lowering of a call of an Objective-C method (IRGenSIL.cpp): the
\* callee is prepared for the kind of the send, and the search type is
\* handed over exactly for the sends that are not Normal.
ObjCMethodCall ==
  \E r \in MethodRefs, kind \in ObjCMessageKinds, self \in Receivers,
     indirectResult \in BOOLEAN :
    LET method == SILDeclRef(DeclPool[r[1]], r[2])
        origFnType == LoweredFnType(indirectResult, <<>>, FALSE)
        searchType == IF kind = "Normal" THEN NoSILType
                      ELSE SearchTypeOf(method)
        emission == prepareObjCMethodRootCall(IGM, method, origFnType, kind)
        implicit == addObjCMethodCallImplicitArguments(IGM, <<>>, method,
                                                       self, searchType)
    IN /\ ret = Idle
       /\ IsObjCMethodCallRef(method)
       /\ IGM' = implicit.igm
       /\ ret' = [op |-> "ObjCMethodCall", decl |-> r[1], refKind |-> r[2],
                  kind |-> kind, self |-> self,
                  indirectResult |-> indirectResult,
                  origFnTy |-> origFnType.fnTy, emission |-> emission,
                  searchType |-> searchType, args |-> implicit.args]

Next ==
  \/ GetAddrOfObjCMethodName
  \/ GetAddrOfObjCSelectorRef
  \/ GetObjCProtocolGlobalVars
  \/ GetAddrOfObjCProtocolRecord
  \/ GetAddrOfObjCProtocolRef
  \/ EmitObjCMethodDescriptorParts
  \/ ObjCMethodCall
  \/ Continue

Spec == Init /\ [][Next]_vars

----------------------------------------------------------------------------
(* The Selector class on its own: a selector is built, then classified.    *)

\* Every sequence over S of a length up to n.
SeqsUpTo(S, n) == UNION {[1..k -> S] : k \in 0..n}

Stems ==
  {alloc, copy, init, mutableCopy, new, <<>>, <<"i", "n", "i">>,
   <<"I", "n", "i", "t">>, <<"m", "u", "t", "a", "b", "l", "e">>, <<"x">>}

SuffixAlphabet == {"i", "F", ":", "_"}

\* The selector texts that declarations carry: underscores, a stem and a
\* few more characters, and three longer texts.
DeclSelectors ==
  {([i \in 1..u |-> "_"] \o stem) \o suffix :
     u \in 0..MaxUnderscores, stem \in Stems,
     suffix \in SeqsUpTo(SuffixAlphabet, MaxSuffix)}
  \cup {<<"_", "i", "n", "i", "t", "F", "o", "o">>,
        <<"i", "n", "i", "t", "i", "a", "l", "i", "z", "e">>,
        <<"c", "o", "p", "y", "T", "h", "i", "n", "g">>}

\* The declaration a SILDeclRef of each kind refers to.
DeclKindOfRef(kind) ==
  CASE kind \in {"Func", "DefaultArgGenerator"} -> "FuncDecl"
    [] kind \in {"Allocator", "Initializer"} -> "ConstructorDecl"
    [] kind \in {"Destroyer", "Deallocator", "IVarInitializer",
                 "IVarDestroyer"} -> "ClassDecl"
    [] kind = "EnumElement" -> "EnumElementDecl"
    [] kind = "GlobalAccessor" -> "VarDecl"

\* Only functions and constructors have selectors of their own.
SelectorsOfKind(declKind) ==
  IF declKind \in {"FuncDecl", "ConstructorDecl"} THEN DeclSelectors
  ELSE {<<>>}

AnyDecl(declKind, selector) ==
  Decl("decl", declKind, selector, FALSE, TRUE,
       DeclType(SelfInput, ResultType("Void")))

NewSelectorOfRef ==
  /\ ret = Idle
  /\ \E kind \in SILDeclRefKinds :
       \E selector \in SelectorsOfKind(DeclKindOfRef(kind)) :
         LET ref == SILDeclRef(AnyDecl(DeclKindOfRef(kind), selector), kind)
         IN ret' = [op |-> "Selector(SILDeclRef)", kind |-> kind,
                    declSelector |-> selector,
                    selector |-> SelectorOfRef(ref)]
  /\ UNCHANGED IGM

NewSelectorOfValueDecl ==
  /\ ret = Idle
  /\ \E declKind \in DeclKinds :
       \E selector \in SelectorsOfKind(declKind) :
         ret' = [op |-> "Selector(ValueDecl)", kind |-> declKind,
                 declSelector |-> selector,
                 selector |-> SelectorOfValueDecl(AnyDecl(declKind, selector))]
  /\ UNCHANGED IGM

GetFamily ==
  /\ ret.op \in {"Selector(SILDeclRef)", "Selector(ValueDecl)"}
  /\ ~ret.selector.fatal
  /\ ret' = [op |-> "getFamily", Text |-> ret.selector.Text,
             family |-> getFamily(ret.selector.Text)]
  /\ UNCHANGED IGM

NextSelector ==
  \/ NewSelectorOfRef
  \/ NewSelectorOfValueDecl
  \/ GetFamily

SpecSelector == Init /\ [][NextSelector]_vars

----------------------------------------------------------------------------
(* prepareObjCMethodRootCall on its own, over the lowered function types.  *)

ParamTypes == {"i64", "%objc_object*"}

PrepareObjCMethodRootCall ==
  \E refKind \in SILDeclRefKinds, kind \in ObjCMessageKinds,
     indirectResult \in BOOLEAN, isVarArg \in BOOLEAN,
     rest \in SeqsUpTo(ParamTypes, MaxRestParams) :
    LET method == SILDeclRef(AnyDecl(DeclKindOfRef(refKind), <<>>), refKind)
        origFnType == LoweredFnType(indirectResult, rest, isVarArg)
    IN /\ ret = Idle
       /\ IsObjCMethodCallRef(method)
       /\ ret' = [op |-> "prepareObjCMethodRootCall", refKind |-> refKind,
                  kind |-> kind, indirectResult |-> indirectResult,
                  origFnTy |-> origFnType.fnTy,
                  emission |-> prepareObjCMethodRootCall(IGM, method,
                                                         origFnType, kind)]
       /\ UNCHANGED IGM

NextSend == PrepareObjCMethodRootCall

SpecSend == Init /\ [][NextSend]_vars

----------------------------------------------------------------------------
(* GetObjCEncodingForMethodType on its own, over the method types.         *)

MethodTypes ==
  {MethodType(InputType("tuple", elts), result) :
     elts \in SeqsUpTo(TypeNames, MaxArgs), result \in TypeNames}
  \cup {MethodType(InputType(tag, <<arg>>), result) :
          tag \in {"paren", "plain"}, arg \in TypeNames, result \in TypeNames}

EncodeMethodType ==
  /\ ret = Idle
  /\ \E T \in MethodTypes :
       LET encoding == GetObjCEncodingForMethodType(IGM, T) IN
       /\ IGM' = encoding.igm
       /\ ret' = [op |-> "GetObjCEncodingForMethodType", T |-> T,
                  val |-> encoding.val]

NextEncoding == EncodeMethodType

SpecEncoding == Init /\ [][NextEncoding]_vars

----------------------------------------------------------------------------
(* The method descriptors of the declarations of a module.                 *)

Accessor(name, selector) == [name |-> name, selector |-> selector]
NoAccessor == Accessor("", <<>>)

\* The properties and subscripts of the module being compiled.
StoragePool ==
  << StorageDecl("C.x", "VarDecl", Accessor("C.x.get", <<"x">>),
                 Accessor("C.x.set", <<"s", "e", "t", "X", ":">>),
                 FALSE, TRUE, "Int64"),
     StorageDecl("C.y", "VarDecl", Accessor("C.y.get", <<"y">>), NoAccessor,
                 FALSE, FALSE, "Int32"),
     StorageDecl("C.u", "VarDecl", Accessor("C.u.get", <<"u">>),
                 Accessor("C.u.set", <<"s", "e", "t", "U", ":">>),
                 FALSE, TRUE, "Unknown"),
     StorageDecl("P.w", "VarDecl", Accessor("P.w.get", <<"w">>),
                 Accessor("P.w.set", <<"s", "e", "t", "W", ":">>),
                 TRUE, TRUE, "Unknown"),
     StorageDecl("P.z", "VarDecl", Accessor("P.z.get", <<"z">>), NoAccessor,
                 TRUE, FALSE, "Object"),
     StorageDecl("C.subscript", "SubscriptDecl",
                 Accessor("C.subscript.get", <<"a", "t", ":">>),
                 Accessor("C.subscript.set", <<"s", "e", "t", ":", "a", "t", ":">>),
                 FALSE, TRUE, "Object"),
     StorageDecl("P.subscript", "SubscriptDecl",
                 Accessor("P.subscript.get", <<"a", "t", ":">>), NoAccessor,
                 TRUE, FALSE, "Unknown") >>

Properties == {i \in DOMAIN StoragePool : StoragePool[i].declKind = "VarDecl"}
Subscripts ==
  {i \in DOMAIN StoragePool : StoragePool[i].declKind = "SubscriptDecl"}

\* The classes of the module being compiled.
ClassPool ==
  << ClassDecl("C", TRUE, TRUE, "Unknown"),
     ClassDecl("D", FALSE, FALSE, "Unknown"),
     ClassDecl("E", TRUE, FALSE, "Void") >>

\* The selectors a descriptor of the module can name.
DescriptorSelectors ==
  (({dealloc, cxx_construct, cxx_destruct}
      \cup {DeclPool[d].selector : d \in Decls \ {1}})
     \cup {StoragePool[i].getter.selector : i \in DOMAIN StoragePool})
    \cup {StoragePool[i].setter.selector :
            i \in {j \in DOMAIN StoragePool : StoragePool[j].isSettable}}

\* What a local pointer declared without an initializer can hold: a constant
\* that an earlier call left there (the null constant, or any other), or no
\* pointer to a constant at all.
IndeterminatePtrs == {NullPtr, Ptr("indeterminate", <<>>, 0), InvalidPtr}

\* A fresh IRGenModule; descriptors do not read ObjCUseStret.
InitDescriptors ==
  /\ \E ptrSize \in {4, 8} :
       IGM = [InitIGM(ptrSize, FALSE) EXCEPT
                !.ObjCMethodNames = [s \in DescriptorSelectors |-> NullPtr],
                !.ObjCSelectorRefs = [s \in DescriptorSelectors |-> NullPtr]]
  /\ ret = Idle

EmitObjCMethodDescriptor ==
  \E d \in Decls :
    LET r == emitObjCMethodDescriptor(IGM, DeclPool[d]) IN
    /\ ret = Idle
    /\ Cardinality(IGM.Module) < MaxMethodNames
    /\ IGM' = r.igm
    /\ ret' = [op |-> "emitObjCMethodDescriptor", decl |-> d, val |-> r.val]

EmitObjCPropertyMethodDescriptors ==
  \E p \in Properties, impl \in IndeterminatePtrs :
    LET undef == Parts(IGM, impl, impl, impl, FALSE)
        r == emitObjCPropertyMethodDescriptors(IGM, StoragePool[p], undef)
    IN /\ ret = Idle
       /\ Cardinality(IGM.Module) < MaxMethodNames
       /\ IGM' = r.igm
       /\ ret' = [op |-> "emitObjCPropertyMethodDescriptors", decl |-> p,
                  getter |-> r.getter, setter |-> r.setter,
                  fatal |-> r.fatal]

EmitObjCSubscriptMethodDescriptors ==
  \E p \in Subscripts, impl \in IndeterminatePtrs :
    LET undef == Parts(IGM, impl, impl, impl, FALSE)
        r == emitObjCPropertyMethodDescriptors(IGM, StoragePool[p], undef)
    IN /\ ret = Idle
       /\ Cardinality(IGM.Module) < MaxMethodNames
       /\ IGM' = r.igm
       /\ ret' = [op |-> "emitObjCSubscriptMethodDescriptors", decl |-> p,
                  getter |-> r.getter, setter |-> r.setter,
                  fatal |-> r.fatal]

EmitObjCIVarInitDestroyDescriptor ==
  \E c \in DOMAIN ClassPool, isDestroyer \in BOOLEAN :
    LET r == emitObjCIVarInitDestroyDescriptor(IGM, ClassPool[c], isDestroyer)
    IN /\ ret = Idle
       /\ Cardinality(IGM.Module) < MaxMethodNames
       /\ IGM' = r.igm
       /\ ret' = [op |-> "emitObjCIVarInitDestroyDescriptor", class |-> c,
                  isDestroyer |-> isDestroyer, result |-> r.result]

NextDescriptor ==
  \/ EmitObjCMethodDescriptor
  \/ EmitObjCPropertyMethodDescriptors
  \/ EmitObjCSubscriptMethodDescriptors
  \/ EmitObjCIVarInitDestroyDescriptor
  \/ Continue

SpecDescriptor == InitDescriptors /\ [][NextDescriptor]_vars

\* emitObjCMethodDescriptorParts on its own, over the signatures a method, an
\* initializer or a destructor can have.
EmitObjCMethodDescriptorPartsOfType ==
  /\ ret = Idle
  /\ \E d \in Decls, T \in MethodTypes :
      LET method ==
            IF DeclPool[d].declKind = "DestructorDecl" THEN DeclPool[d]
            ELSE [DeclPool[d] EXCEPT
                    !.type = DeclType(SelfInput,
                                      ResultFunction(T.input, T.result))]
          parts == emitObjCMethodDescriptorParts(IGM, method)
      IN /\ IGM' = parts.igm
         /\ ret' = [op |-> "emitObjCMethodDescriptorParts", method |-> method,
                    selectorRef |-> parts.selectorRef,
                    atEncoding |-> parts.atEncoding, impl |-> parts.impl]

NextMethodDescriptor == EmitObjCMethodDescriptorPartsOfType

SpecMethodDescriptor == InitDescriptors /\ [][NextMethodDescriptor]_vars

----------------------------------------------------------------------------
(* Partial applications: the closure is built, then its forwarder is called. *)

Forwarders == {g \in IGM.Module : g.label = "_TPAo"}

\* A partial application of a method to a receiver is lowered.
EmitObjCPartialApplication ==
  /\ ret = Idle
  /\ Cardinality(Forwarders) < MaxForwarders
  /\ \E r \in MethodRefs, convention \in ParameterConventions,
        indirectResult \in BOOLEAN, self \in Receivers,
        rest \in SeqsUpTo(ParamTypes, MaxRestParams) :
       \E pa \in {emitObjCPartialApplication(
                    IGM, SILDeclRef(DeclPool[r[1]], r[2]),
                    SILFunctionType(convention,
                                    LoweredFnType(indirectResult, rest,
                                                  FALSE)),
                    self)} :
         /\ IGM' = pa.igm
         /\ ret' = [op |-> "emitObjCPartialApplication", decl |-> r[1],
                    refKind |-> r[2], convention |-> convention,
                    indirectResult |-> indirectResult, self |-> self,
                    rest |-> rest,
                    fatal |-> pa.fatal, code |-> pa.code,
                    forwarder |-> pa.forwarder, out |-> pa.out]

\* The instructions a call of a function executes: those up to its first
\* return.
RECURSIVE Run(_, _)
Run(body, i) ==
  IF i > Len(body) THEN <<>>
  ELSE IF body[i].op = "ret" THEN <<body[i]>>
  ELSE <<body[i]>> \o Run(body, i + 1)

\* The closure that was built is called once: its forwarder runs to its
\* return.
CallForwarder ==
  /\ ret.op = "emitObjCPartialApplication"
  /\ ~ret.fatal
  /\ ret' = [op |-> "forwarder returned", application |-> ret,
             executed |-> Run(ret.forwarder, 1)]
  /\ UNCHANGED IGM

NextPartial ==
  \/ EmitObjCPartialApplication
  \/ CallForwarder
  \/ Continue

SpecPartial == Init /\ [][NextPartial]_vars

----------------------------------------------------------------------------
(* The implicit arguments of a send, for any class to search from.         *)

\* The classes a super send may start its search at.
SearchClasses == {"Base", "Derived"}

\* The search types a caller hands over for a method: none, or the type of
\* a class for an instance method and its metatype otherwise.
SearchTypesOf(method) ==
  {NoSILType}
    \cup {SILTypeOf(class, ~(\/ method.kind = "Initializer"
                             \/ method.kind = "Deallocator"
                             \/ method.decl.isInstanceMember)) :
            class \in SearchClasses}

AddObjCMethodCallImplicitArguments ==
  /\ ret = Idle
  /\ \E r \in MethodRefs, self \in Receivers :
       \E searchType \in SearchTypesOf(SILDeclRef(DeclPool[r[1]], r[2])) :
         \E implicit \in
              {addObjCMethodCallImplicitArguments(
                 IGM, <<>>, SILDeclRef(DeclPool[r[1]], r[2]), self,
                 searchType)} :
           /\ IGM' = implicit.igm
           /\ ret' = [op |-> "addObjCMethodCallImplicitArguments",
                      decl |-> r[1], refKind |-> r[2], self |-> self,
                      searchType |-> searchType, args |-> implicit.args]

NextSuper ==
  \/ AddObjCMethodCallImplicitArguments
  \/ Continue

SpecSuper == Init /\ [][NextSuper]_vars

----------------------------------------------------------------------------
(* Which declarations get a descriptor.                                    *)

\* A FuncDecl as requiresObjCMethodDescriptor reads it.  Its type is a
\* PolymorphicFunctionType, or the result of its type is, or the type of its
\* context is a BoundGenericType, or none of these.
GenericKinds ==
  {"none", "PolymorphicFunctionType", "PolymorphicResult", "BoundGenericType"}

Methods ==
  [isAccessor : BOOLEAN, generic : GenericKinds, isObjC : BOOLEAN,
   isIBAction : BOOLEAN]

\* A method with the declarations it overrides: chain[i + 1] is
\* chain[i].getOverriddenDecl(), and the last one, chain[n], overrides nothing.
OverrideChains(n) == [1..n -> Methods]

RECURSIVE requiresObjCMethodDescriptor_overridesOnly(_, _)
requiresObjCMethodDescriptor_overridesOnly(chain, i) ==
  LET method == chain[i] IN
  IF method.isAccessor THEN FALSE
  ELSE IF method.generic # "none" THEN FALSE
  ELSE IF i < Len(chain)
    THEN requiresObjCMethodDescriptor_overridesOnly(chain, i + 1)
  ELSE method.isObjC \/ method.isIBAction

\* requiresObjCMethodDescriptor(FuncDecl *method), for the method chain[i].
RECURSIVE requiresObjCMethodDescriptor(_, _)
requiresObjCMethodDescriptor(chain, i) ==
  LET method == chain[i] IN
  IF method.isAccessor THEN FALSE
  ELSE IF method.generic # "none" THEN FALSE
  ELSE IF method.isObjC \/ method.isIBAction THEN TRUE
  ELSE IF i < Len(chain) THEN requiresObjCMethodDescriptor(chain, i + 1)
  ELSE FALSE

\* The predicates read declarations only.
InitPredicates ==
  /\ IGM = InitIGM(8, FALSE)
  /\ ret = Idle

RequiresObjCMethodDescriptor ==
  /\ ret = Idle
  /\ \E n \in 1..(MaxOverrides + 1) : \E chain \in OverrideChains(n) :
       ret' = [op |-> "requiresObjCMethodDescriptor", chain |-> chain,
               val |-> requiresObjCMethodDescriptor(chain, 1)]
  /\ UNCHANGED IGM

\* A ConstructorDecl as requiresObjCMethodDescriptor reads it.
Constructors == [generic : GenericKinds, isObjC : BOOLEAN]

\* A type as the property and subscript predicates read it: getAs of
\* AnyFunctionType gives a function type or nothing, and a function type
\* is a block or not.
ValueType == [isFunction |-> FALSE, isBlock |-> FALSE]
AnyFunctionType(isBlock) == [isFunction |-> TRUE, isBlock |-> isBlock]
StorageTypes == {ValueType} \cup {AnyFunctionType(b) : b \in BOOLEAN}

\* A VarDecl or a SubscriptDecl as its predicate reads it; type is the type
\* of the property or the element type of the subscript.
Storages == [inBoundGeneric : BOOLEAN, isObjC : BOOLEAN, type : StorageTypes]

ConstructorChains(n) == [1..n -> Constructors]
StorageChains(n) == [1..n -> Storages]

requiresObjCMethodDescriptorForConstructor_propagates(chain, i) ==
  LET constructor == chain[Len(chain)] IN
  IF \E j \in i..Len(chain) : chain[j].generic # "none" THEN FALSE
  ELSE constructor.isObjC

\* requiresObjCMethodDescriptor(ConstructorDecl *constructor), for the
\* initializer chain[i].
requiresObjCMethodDescriptorForConstructor(chain, i) ==
  LET constructor == chain[i] IN
  IF constructor.generic # "none" THEN FALSE
  ELSE constructor.isObjC

\* requiresObjCPropertyDescriptor(VarDecl *property), for the property
\* chain[i].
RECURSIVE requiresObjCPropertyDescriptor(_, _)
requiresObjCPropertyDescriptor(chain, i) ==
  LET property == chain[i] IN
  IF property.inBoundGeneric THEN FALSE
  ELSE IF i < Len(chain) THEN requiresObjCPropertyDescriptor(chain, i + 1)
  ELSE IF ~property.isObjC THEN FALSE
  ELSE IF property.type.isFunction THEN property.type.isBlock
  ELSE TRUE

\* requiresObjCSubscriptDescriptor(SubscriptDecl *subscript), for the
\* subscript chain[i].
RECURSIVE requiresObjCSubscriptDescriptor(_, _)
requiresObjCSubscriptDescriptor(chain, i) ==
  LET subscript == chain[i] IN
  IF subscript.inBoundGeneric THEN FALSE
  ELSE IF i < Len(chain) THEN requiresObjCSubscriptDescriptor(chain, i + 1)
  ELSE IF ~subscript.isObjC THEN FALSE
  ELSE IF subscript.type.isFunction THEN subscript.type.isBlock
  ELSE TRUE

RequiresObjCMethodDescriptorForConstructor ==
  /\ ret = Idle
  /\ \E n \in 1..(MaxOverrides + 1) : \E chain \in ConstructorChains(n) :
       ret' = [op |-> "requiresObjCMethodDescriptor(ConstructorDecl)",
               chain |-> chain,
               val |-> requiresObjCMethodDescriptorForConstructor(chain, 1)]
  /\ UNCHANGED IGM

RequiresObjCPropertyDescriptor ==
  /\ ret = Idle
  /\ \E n \in 1..(MaxOverrides + 1) : \E chain \in StorageChains(n) :
       ret' = [op |-> "requiresObjCPropertyDescriptor", chain |-> chain,
               val |-> requiresObjCPropertyDescriptor(chain, 1)]
  /\ UNCHANGED IGM

RequiresObjCSubscriptDescriptor ==
  /\ ret = Idle
  /\ \E n \in 1..(MaxOverrides + 1) : \E chain \in StorageChains(n) :
       ret' = [op |-> "requiresObjCSubscriptDescriptor", chain |-> chain,
               val |-> requiresObjCSubscriptDescriptor(chain, 1)]
  /\ UNCHANGED IGM

NextPredicates ==
  \/ RequiresObjCMethodDescriptor
  \/ RequiresObjCMethodDescriptorForConstructor
  \/ RequiresObjCPropertyDescriptor
  \/ RequiresObjCSubscriptDescriptor

SpecPredicates == InitPredicates /\ [][NextPredicates]_vars

----------------------------------------------------------------------------
(* The symbol caches: C1, C2, C3.                                          *)

MethodNameGlobals(s) == GlobalsNamed(IGM.Module, "L_selector_data", s)
SelectorRefGlobals(s) == GlobalsNamed(IGM.Module, "L_selector", s)

\* Each request hands back the entry the cache holds for its key.
C1_ReturnsCachedSymbol ==
  /\ ret.op = "getAddrOfObjCMethodName" =>
       ret.val # NullPtr /\ ret.val = IGM.ObjCMethodNames[ret.key]
  /\ ret.op = "getAddrOfObjCSelectorRef" =>
       ret.val # NullPtr /\ ret.val = IGM.ObjCSelectorRefs[ret.key]

\* Each operation has created at most one global per selector text.
C1_AtMostOneGlobal ==
  \A s \in SelectorTexts :
    /\ Cardinality(MethodNameGlobals(s)) <= 1
    /\ Cardinality(SelectorRefGlobals(s)) <= 1

\* An entry of a cache, once made, is never replaced, and a request for a
\* text its cache already holds creates nothing.
C1_EntriesStay ==
  /\ \A s \in SelectorTexts :
       /\ IGM.ObjCMethodNames[s] # NullPtr =>
            IGM'.ObjCMethodNames[s] = IGM.ObjCMethodNames[s]
       /\ IGM.ObjCSelectorRefs[s] # NullPtr =>
            IGM'.ObjCSelectorRefs[s] = IGM.ObjCSelectorRefs[s]
  /\ (ret'.op = "getAddrOfObjCMethodName" /\ ret = Idle
        /\ IGM.ObjCMethodNames[ret'.key] # NullPtr) =>
       IGM'.Module = IGM.Module /\ ret'.created = 0
  /\ (ret'.op = "getAddrOfObjCSelectorRef" /\ ret = Idle
        /\ IGM.ObjCSelectorRefs[ret'.key] # NullPtr) =>
       IGM'.Module = IGM.Module /\ ret'.created = 0

\* C1: after any sequence of getAddrOfObjCMethodName and
\* getAddrOfObjCSelectorRef requests on one module, two requests for the same
\* selector text to the same operation return the identical symbol (each
\* returns the cache's entry, and an entry never changes), and each operation
\* has created at most one global per distinct selector text (a repeated
\* request creates nothing).
C1_SelectorSymbolsAreSingletons ==
  /\ [](C1_ReturnsCachedSymbol /\ C1_AtMostOneGlobal)
  /\ [][C1_EntriesStay]_vars

\* A method-name request that found its text cached (the selector reference
\* of the text exists already) and handed back the symbol that initializes
\* that reference, creating nothing.
C1_Witness ==
  /\ ret.op = "getAddrOfObjCMethodName"
  /\ ret.created = 0
  /\ \E g \in SelectorRefGlobals(ret.key) : g.init = ret.val

ProtocolGlobals(label, p) == GlobalsNamed(IGM.Module, label, p)

ProtocolLabels ==
  {"_PROTOCOL_", "l_OBJC_LABEL_PROTOCOL_$_", "l_OBJC_PROTOCOL_REFERENCE_$_"}

\* Each request hands back the pair of the cache, or its half.
C2_ReturnsCachedPair ==
  /\ ret.op = "getObjCProtocolGlobalVars" =>
       ret.val # NoPair /\ ret.val = IGM.ObjCProtocols[ret.key]
  /\ ret.op = "getAddrOfObjCProtocolRecord" =>
       ret.val # NullPtr /\ ret.val = IGM.ObjCProtocols[ret.key].record
  /\ ret.op = "getAddrOfObjCProtocolRef" =>
       ret.val # NullPtr /\ ret.val = IGM.ObjCProtocols[ret.key].ref

\* The record, the label and the reference exist once for a protocol that
\* was asked for and not at all for one that was not.
C2_EmittedOnce ==
  \A p \in Protocols : \A label \in ProtocolLabels :
    Cardinality(ProtocolGlobals(label, p)) =
      IF IGM.ObjCProtocols[p] # NoPair THEN 1 ELSE 0

\* The pair of a protocol, once made, is never replaced.
C2_PairsStay ==
  \A p \in Protocols :
    IGM.ObjCProtocols[p] # NoPair =>
      IGM'.ObjCProtocols[p] = IGM.ObjCProtocols[p]

\* C2: after any sequence of getObjCProtocolGlobalVars,
\* getAddrOfObjCProtocolRecord and getAddrOfObjCProtocolRef requests on one
\* module, every request for the same protocol yields the same (record,
\* reference) pair as the first request, and the protocol record, the label
\* global and the reference global are each emitted exactly once per
\* protocol.
C2_ProtocolPairsAreSingletons ==
  /\ [](C2_ReturnsCachedPair /\ C2_EmittedOnce)
  /\ [][C2_PairsStay]_vars

\* A request for the reference of a protocol whose pair existed: nothing was
\* created and the reference of the pair came back.
C2_Witness ==
  /\ ret.op = "getAddrOfObjCProtocolRef"
  /\ ret.created = 0
  /\ ret.val = IGM.ObjCProtocols[ret.key].ref
  /\ Cardinality(ProtocolGlobals("l_OBJC_PROTOCOL_REFERENCE_$_", ret.key)) = 1

IsMapped(s) ==
  IGM.ObjCMethodNames[s] # NullPtr \/ IGM.ObjCSelectorRefs[s] # NullPtr

\* C3 as stated: in every reachable state of a module's symbol cache, every
\* selector text that maps to a symbol maps to exactly one name-symbol and
\* exactly one reference-symbol.
C3_ExactlyOneNameAndOneReference ==
  \A s \in SelectorTexts :
    IsMapped(s) =>
      /\ Cardinality(MethodNameGlobals(s)) = 1
      /\ Cardinality(SelectorRefGlobals(s)) = 1

\* C3, amended: in every reachable state, every selector text that maps to a
\* symbol maps to exactly one name-symbol, which the name cache holds, and to
\* at most one reference-symbol: exactly one when the text is in the
\* selector-reference cache and none when only method names or method
\* descriptors were asked for it.
C3_OneNameAtMostOneReference ==
  \A s \in SelectorTexts :
    /\ IsMapped(s) =>
         /\ Cardinality(MethodNameGlobals(s)) = 1
         /\ \A g \in MethodNameGlobals(s) : IGM.ObjCMethodNames[s] = AddrOf(g)
    /\ Cardinality(SelectorRefGlobals(s)) =
         IF IGM.ObjCSelectorRefs[s] # NullPtr THEN 1 ELSE 0
    /\ \A g \in SelectorRefGlobals(s) : IGM.ObjCSelectorRefs[s] = AddrOf(g)
    /\ ~IsMapped(s) => MethodNameGlobals(s) = {}

\* A descriptor was built for a method whose selector has a name-symbol and
\* no reference-symbol.
C3_Witness ==
  /\ ret.op = "emitObjCMethodDescriptorParts"
  /\ \E s \in SelectorTexts :
       /\ ret.selectorRef = IGM.ObjCMethodNames[s]
       /\ Cardinality(MethodNameGlobals(s)) = 1
       /\ SelectorRefGlobals(s) = {}

----------------------------------------------------------------------------
(* The Selector class: C4, C5.                                             *)

\* The text after its leading underscores.
AfterUnderscores(text) ==
  LET first == {i \in 1..Len(text) :
                  text[i] # "_" /\ \A j \in 1..(i - 1) : text[j] = "_"}
  IN IF first = {} THEN <<>>
     ELSE SubSeq(text, CHOOSE i \in first : TRUE, Len(text))

LowercaseLetters ==
  {"a", "b", "c", "d", "e", "f", "g", "h", "i", "j", "k", "l", "m",
   "n", "o", "p", "q", "r", "s", "t", "u", "v", "w", "x", "y", "z"}

\* The family's name starts the text, and ends it or is followed by a
\* character that is no lowercase letter.
NamesFamily(rest, name) ==
  /\ Len(rest) >= Len(name)
  /\ \A i \in 1..Len(name) : rest[i] = name[i]
  /\ Len(rest) = Len(name) \/ rest[Len(name) + 1] \notin LowercaseLetters

FamilyOrder == <<"Alloc", "Copy", "Init", "MutableCopy", "New">>

FamilyName(label) ==
  CASE label = "Alloc" -> <<"a", "l", "l", "o", "c">>
    [] label = "Copy" -> <<"c", "o", "p", "y">>
    [] label = "Init" -> <<"i", "n", "i", "t">>
    [] label = "MutableCopy" ->
         <<"m", "u", "t", "a", "b", "l", "e", "C", "o", "p", "y">>
    [] label = "New" -> <<"n", "e", "w">>

FamilyOfText(text) ==
  LET rest == AfterUnderscores(text)
      named == {i \in 1..Len(FamilyOrder) :
                  NamesFamily(rest, FamilyName(FamilyOrder[i]))}
  IN IF named = {} THEN "None"
     ELSE FamilyOrder[CHOOSE i \in named : \A j \in named : i <= j]

\* C4: getFamily strips all leading underscores from the selector text and
\* returns the first family in the order Alloc, Copy, Init, MutableCopy, New
\* whose name is a case-sensitive prefix of the rest and is the whole rest or
\* is followed by a character that is not a lowercase letter, and None
\* otherwise; "_initFoo" and "init:" are Init and "initialize" is None.
C4_FamilyOfSelector ==
  ret.op = "getFamily" =>
    /\ ret.family = FamilyOfText(ret.Text)
    /\ ret.Text = <<"_", "i", "n", "i", "t", "F", "o", "o">> =>
         ret.family = "Init"
    /\ ret.Text = <<"i", "n", "i", "t", ":">> => ret.family = "Init"
    /\ ret.Text = <<"i", "n", "i", "t", "i", "a", "l", "i", "z", "e">> =>
         ret.family = "None"

\* getFamily has classified "__mutableCopy:" as MutableCopy.
C4_Witness ==
  /\ ret.op = "getFamily"
  /\ ret.Text = <<"_", "_">> \o (FamilyName("MutableCopy") \o <<":">>)
  /\ ret.family = "MutableCopy"

\* C5: building a Selector from a reference kind is a total table: Destroyer
\* and Deallocator yield "dealloc", IVarInitializer ".cxx_construct",
\* IVarDestroyer ".cxx_destruct", Func and Initializer the declaration's own
\* selector, and Allocator, DefaultArgGenerator, EnumElement and
\* GlobalAccessor end in a fatal internal error without any selector text;
\* building one from a declaration that is not a function, a constructor or
\* a destructor is fatal too.
C5_SelectorTable ==
  /\ ret.op = "Selector(SILDeclRef)" =>
       /\ ret.kind \in {"Destroyer", "Deallocator"} =>
            ~ret.selector.fatal /\ ret.selector.Text = dealloc
       /\ ret.kind = "IVarInitializer" =>
            ~ret.selector.fatal /\ ret.selector.Text = cxx_construct
       /\ ret.kind = "IVarDestroyer" =>
            ~ret.selector.fatal /\ ret.selector.Text = cxx_destruct
       /\ ret.kind \in {"Func", "Initializer"} =>
            ~ret.selector.fatal /\ ret.selector.Text = ret.declSelector
       /\ ret.kind \in {"Allocator", "DefaultArgGenerator", "EnumElement",
                        "GlobalAccessor"} =>
            ret.selector.fatal /\ ret.selector.Text = <<>>
       /\ ret.kind \in
            {"Destroyer", "Deallocator", "IVarInitializer", "IVarDestroyer",
             "Func", "Initializer", "Allocator", "DefaultArgGenerator",
             "EnumElement", "GlobalAccessor"}
  /\ ret.op = "Selector(ValueDecl)" =>
       /\ ret.kind \notin {"FuncDecl", "ConstructorDecl", "DestructorDecl"} =>
            ret.selector.fatal /\ ret.selector.Text = <<>>
       /\ ret.kind \in {"FuncDecl", "ConstructorDecl"} =>
            ~ret.selector.fatal /\ ret.selector.Text = ret.declSelector
       /\ ret.kind = "DestructorDecl" =>
            ~ret.selector.fatal /\ ret.selector.Text = dealloc

\* A Selector was asked for a global accessor, and the constructor did not
\* return.
C5_Witness ==
  /\ ret.op = "Selector(SILDeclRef)"
  /\ ret.kind = "GlobalAccessor"
  /\ ret.selector.fatal

----------------------------------------------------------------------------
(* Message sends: C6, C7, C8, C9.                                          *)

EntryPoints ==
  {"objc_msgSend", "objc_msgSend_stret", "objc_msgSendSuper",
   "objc_msgSendSuper_stret", "objc_msgSendSuper2",
   "objc_msgSendSuper2_stret"}

\* The table of the entry points, by kind and by struct-return variant.
EntryPointOf(kind, structReturn) ==
  CASE kind = "Normal" /\ ~structReturn -> "objc_msgSend"
    [] kind = "Normal" /\ structReturn -> "objc_msgSend_stret"
    [] kind = "Peer" /\ ~structReturn -> "objc_msgSendSuper"
    [] kind = "Peer" /\ structReturn -> "objc_msgSendSuper_stret"
    [] kind = "Super" /\ ~structReturn -> "objc_msgSendSuper2"
    [] kind = "Super" /\ structReturn -> "objc_msgSendSuper2_stret"

IsStructReturn(entry) ==
  entry \in {"objc_msgSend_stret", "objc_msgSendSuper_stret",
             "objc_msgSendSuper2_stret"}

\* C6: prepareObjCMethodRootCall selects the entry point as a function of
\* (indirect result, target uses struct-return, kind): a struct-return
\* variant exactly when the result is indirect and the target uses the
\* struct-return convention; Normal the plain send, Peer the 'super' send,
\* Super the 'super2' send: each of the 12 combinations maps to one of the
\* six entry points.
C6_EntryPointTable ==
  ret.op = "prepareObjCMethodRootCall" =>
    /\ ret.emission.messenger \in EntryPoints
    /\ IsStructReturn(ret.emission.messenger) <=>
         (ret.indirectResult /\ IGM.ObjCUseStret)
    /\ ret.emission.messenger =
         EntryPointOf(ret.kind, ret.indirectResult /\ IGM.ObjCUseStret)

\* A Super send with an indirect result on a struct-return target was
\* prepared.
C6_Witness ==
  /\ ret.op = "prepareObjCMethodRootCall"
  /\ ret.kind = "Super" /\ ret.indirectResult /\ IGM.ObjCUseStret
  /\ ret.emission.messenger = "objc_msgSendSuper2_stret"

\* The parameters (numbered from 0) at which two signatures differ.
ChangedParams(before, after) ==
  {i \in 0..(Len(before.params) - 1) :
     after.params[i + 1] # before.params[i + 1]}

\* C7: when the kind is not Normal exactly one parameter of the callee's
\* signature is retyped to the super-dispatch record pointer, parameter 1
\* when the result is indirect and parameter 0 otherwise; the return type,
\* the variadic flag and every other parameter are unchanged; when the kind
\* is Normal the signature is not rewritten at all.
C7_OneParameterRetyped ==
  ret.op = "prepareObjCMethodRootCall" =>
    LET before == ret.origFnTy
        after == ret.emission.fnTy
    IN /\ after.result = before.result
       /\ after.isVarArg = before.isVarArg
       /\ Len(after.params) = Len(before.params)
       /\ ret.kind = "Normal" => after = before
       /\ ret.kind # "Normal" =>
            /\ ChangedParams(before, after) =
                 {IF ret.indirectResult THEN 1 ELSE 0}
            /\ \A i \in ChangedParams(before, after) :
                 after.params[i + 1] = ObjCSuperPtrTy

\* A Peer send with an indirect result was prepared: parameter 1 is the
\* super record, parameter 0 still the result slot.
C7_Witness ==
  /\ ret.op = "prepareObjCMethodRootCall"
  /\ ret.kind = "Peer" /\ ret.indirectResult
  /\ Len(ret.emission.fnTy.params) = 4
  /\ ret.emission.fnTy.params[2] = ObjCSuperPtrTy
  /\ ret.emission.fnTy.params[1] = "%sret*"

\* The parameter (numbered from 1) that takes the receiver.
ReceiverParam(call) == IF call.indirectResult THEN 2 ELSE 1

\* C8: for every message send whose kind is other than Normal the super
\* record is synthesized and its address is the first implicit argument,
\* and for kind Normal the receiver is: across prepareObjCMethodRootCall
\* and addObjCMethodCallImplicitArguments the first implicit argument is a
\* super-record pointer exactly when the callee's signature was rewritten to
\* expect one.
C8_SuperRecordIffSuperSignature ==
  ret.op = "ObjCMethodCall" =>
    /\ ret.kind # "Normal" =>
         /\ ret.args[1].tag = "objc_super"
         /\ ret.args[1].receiver = ret.self
         /\ ret.args[1].search # NullPtr
    /\ ret.kind = "Normal" =>
         ret.args[1] = Value("receiver", ret.self, NullPtr, NullPtr)
    /\ ret.args[1].tag = "objc_super" <=>
         ret.emission.fnTy.params[ReceiverParam(ret)] = ObjCSuperPtrTy

\* A Super send was lowered: the first argument is a super record and the
\* callee expects one.
C8_Witness ==
  /\ ret.op = "ObjCMethodCall"
  /\ ret.kind = "Super"
  /\ ret.args[1].tag = "objc_super"
  /\ ret.emission.fnTy.params[ReceiverParam(ret)] = ObjCSuperPtrTy

\* The selector text of the method of a call.
SelectorOfCall(call) ==
  IF call.refKind \in {"Destroyer", "Deallocator"} THEN dealloc
  ELSE DeclPool[call.decl].selector

\* C9: addObjCMethodCallImplicitArguments, called with an empty argument
\* list, leaves it holding exactly two values in this order: the receiver
\* (or the super-record pointer when a search type is given), then the
\* selector loaded through the selector-reference cell (never the
\* method-name symbol); afterwards the selector text is in the
\* selector-reference cache and in the method-name cache.
C9_ReceiverThenSelector ==
  ret.op = "ObjCMethodCall" =>
    LET s == SelectorOfCall(ret) IN
    /\ Len(ret.args) = 2
    /\ ret.args[1].tag = IF ret.searchType.isNull THEN "receiver"
                         ELSE "objc_super"
    /\ ret.args[1].receiver = ret.self
    /\ ret.args[2].tag = "load"
    /\ ret.args[2].from = IGM.ObjCSelectorRefs[s]
    /\ ret.args[2].from \in {AddrOf(g) : g \in SelectorRefGlobals(s)}
    /\ ret.args[2].from # IGM.ObjCMethodNames[s]
    /\ IGM.ObjCSelectorRefs[s] # NullPtr
    /\ IGM.ObjCMethodNames[s] # NullPtr

\* A message was sent to super's initializer: two arguments, the super
\* record and the load of the selector reference.
C9_Witness ==
  /\ ret.op = "ObjCMethodCall"
  /\ ret.refKind = "Initializer"
  /\ ~ret.searchType.isNull
  /\ Len(ret.args) = 2
  /\ ret.args[2].from = IGM.ObjCSelectorRefs[DeclPool[ret.decl].selector]
  /\ ret.args[2].from.label = "L_selector"

----------------------------------------------------------------------------
(* Method type encodings: C10.                                             *)

\* A number below 1000 in decimal.
Decimal(n) ==
  LET d(k) == Digits[k + 1] IN
  IF n < 10 THEN <<d(n)>>
  ELSE IF n < 100 THEN <<d(n \div 10), d(n % 10)>>
  ELSE <<d(n \div 100), d((n \div 10) % 10), d(n % 10)>>

\* s1 + ... + sn for the first n of the types.
RECURSIVE SizeOfFirst(_, _)
SizeOfFirst(elts, n) ==
  IF n = 0 THEN 0
  ELSE SizeOfFirst(elts, n - 1) + getObjCEncodingTypeSize(IGM, elts[n])

\* The codes and offsets of the first n arguments.
RECURSIVE ArgumentsText(_, _)
ArgumentsText(elts, n) ==
  IF n = 0 THEN <<>>
  ELSE (ArgumentsText(elts, n - 1) \o getObjCEncodingForType(elts[n]))
         \o Decimal(2 * IGM.PointerSize + SizeOfFirst(elts, n - 1))

IsEncodable(T) ==
  /\ ~clangTypeIsNull(T.result)
  /\ \A i \in 1..Len(T.input.elts) : ~clangTypeIsNull(T.input.elts[i])

\* C10: for a method whose return type is encodable and whose n >= 0 tuple
\* arguments encode to sizes s1..sn, GetObjCEncodingForMethodType produces
\* <returnCode><2P+s1+...+sn>@0:<P> followed, for each argument i in order,
\* by its type code and the offset 2P+s1+...+s(i-1).
C10_TupleEncoding ==
  (/\ ret.op = "GetObjCEncodingForMethodType"
   /\ ret.T.input.tag = "tuple"
   /\ IsEncodable(ret.T)) =>
    LET P == IGM.PointerSize
        elts == ret.T.input.elts
        n == Len(elts)
    IN ret.val =
         Ptr("str",
             (((getObjCEncodingForType(ret.T.result)
                  \o Decimal(2 * P + SizeOfFirst(elts, n)))
                 \o <<"@", "0", ":">>) \o Decimal(P))
               \o ArgumentsText(elts, n),
             0)

\* On a target with pointers of 8 bytes, (Int32, Struct) -> Void was
\* encoded as v36@0:8i16{S=qq}20.
C10_Witness ==
  /\ ret.op = "GetObjCEncodingForMethodType"
  /\ IGM.PointerSize = 8
  /\ ret.T = MethodType(InputType("tuple", <<"Int32", "Struct">>), "Void")
  /\ ret.val =
       Ptr("str",
           <<"v", "3", "6", "@", "0", ":", "8", "i", "1", "6",
             "{", "S", "=", "q", "q", "}", "2", "0">>,
           0)

----------------------------------------------------------------------------
(* Method descriptors: C11 .. C16.                                         *)

\* The function type whose encoding a method's descriptor holds.
EncodedType(method) ==
  IF method.declKind = "DestructorDecl"
    THEN MethodType(method.type.input, method.type.result.result)
    ELSE MethodType(method.type.result.input, method.type.result.result)

\* The return type or one of the argument types has no foreign encoding.
HasNoForeignEncoding(T) ==
  \/ T.result = "Unknown"
  \/ \E i \in DOMAIN T.input.elts : T.input.elts[i] = "Unknown"

\* The name symbol of a selector text, once the module holds it.
NameSymbolOf(text) == Ptr("L_selector_data", text, 0)

HoldsNameSymbol(text) ==
  \E g \in IGM.Module : g.label = "L_selector_data" /\ g.key = text

\* The entry point of a declaration under a kind of reference, once it was
\* located and made internal and unnamed.
EntryPoint(name, kind) == Ptr("fn", <<name, kind>>, 0)

IsLocated(name, kind) ==
  \E f \in IGM.Functions :
    /\ f.key = <<name, kind>>
    /\ f.linkage = "InternalLinkage"
    /\ f.unnamedAddr

SelectorTextOf(method) ==
  IF method.declKind = "DestructorDecl" THEN dealloc ELSE method.selector

RefKindOf(method) ==
  CASE method.declKind = "FuncDecl" -> "Func"
    [] method.declKind = "ConstructorDecl" -> "Initializer"
    [] method.declKind = "DestructorDecl" -> "Deallocator"

\* What the third field of a method's descriptor is to be.
ImplementationOf(method) ==
  IF method.declKind # "DestructorDecl" /\ method.inProtocol THEN NullPtr
  ELSE EntryPoint(method.name, RefKindOf(method))

\* C11: the type encoding of a method is null exactly when its return type
\* or one of its argument types has no foreign encoding, at whichever
\* position and on either path, and emitObjCMethodDescriptorParts then still
\* gives the selector's symbol and the implementation pointer that the
\* declaration has with an encodable signature.
C11_NullEncodingKeepsSelectorAndImpl ==
  ret.op = "emitObjCMethodDescriptorParts" =>
    LET method == ret.method IN
    /\ (ret.atEncoding = NullPtr) <=> HasNoForeignEncoding(EncodedType(method))
    /\ ret.atEncoding # NullPtr => ret.atEncoding.label = "str"
    /\ ret.selectorRef = NameSymbolOf(SelectorTextOf(method))
    /\ HoldsNameSymbol(SelectorTextOf(method))
    /\ ret.impl = ImplementationOf(method)
    /\ ret.impl # NullPtr => IsLocated(method.name, RefKindOf(method))

\* C.foo with the arguments (Int64, Unknown, Int32) got a null encoding, its
\* selector and its entry point.
C11_Witness ==
  /\ ret.op = "emitObjCMethodDescriptorParts"
  /\ ret.method.name = "C.foo"
  /\ ret.method.type.result.input =
       InputType("tuple", <<"Int64", "Unknown", "Int32">>)
  /\ ret.method.type.result.result = "Void"
  /\ ret.atEncoding = NullPtr
  /\ ret.selectorRef = NameSymbolOf(SelectorPool[1])
  /\ ret.impl = EntryPoint("C.foo", "Func")

\* What the third field of an accessor's descriptor is to be.
AccessorImplementation(property, accessor) ==
  IF property.inProtocol THEN NullPtr ELSE EntryPoint(accessor.name, "Func")

\* The descriptor of an accessor of a property whose type has no foreign
\* encoding: the accessor's selector, no encoding, the accessor's
\* implementation.
WithoutEncoding(property, accessor) ==
  ConstantStruct(<<NameSymbolOf(accessor.selector), NullPtr,
                   AccessorImplementation(property, accessor)>>)

\* C12: for a property whose type has no foreign encoding,
\* emitObjCPropertyMethodDescriptors returns a getter descriptor, and a
\* setter descriptor when the property is settable, made of the accessor's
\* selector symbol, a null encoding and the accessor's implementation pointer
\* (null only for a property of a protocol).
C12_UnencodablePropertyDescriptors ==
  (/\ ret.op = "emitObjCPropertyMethodDescriptors"
   /\ StoragePool[ret.decl].type = "Unknown") =>
    LET property == StoragePool[ret.decl] IN
    /\ ~ret.fatal
    /\ ret.getter = WithoutEncoding(property, property.getter)
    /\ property.isSettable =>
         ret.setter = WithoutEncoding(property, property.setter)

\* The descriptors the last operation handed back, each with the text of the
\* selector it is the descriptor of and whether its declaration is an
\* accessor of a property whose type has no foreign encoding.
Emitted(descriptor, text, unencodableProperty) ==
  [descriptor |-> descriptor, text |-> text,
   unencodableProperty |-> unencodableProperty]

EmittedDescriptors ==
  CASE ret.op = "emitObjCMethodDescriptor" ->
         {Emitted(ret.val, SelectorTextOf(DeclPool[ret.decl]), FALSE)}
    [] ret.op \in {"emitObjCPropertyMethodDescriptors",
                   "emitObjCSubscriptMethodDescriptors"} ->
         LET property == StoragePool[ret.decl]
             unencodable == /\ property.declKind = "VarDecl"
                            /\ property.type = "Unknown"
         IN (IF ret.getter.isNull THEN {}
             ELSE {Emitted(ret.getter, property.getter.selector,
                           unencodable)})
              \cup (IF ret.setter.isNull THEN {}
                    ELSE {Emitted(ret.setter, property.setter.selector,
                                  unencodable)})
    [] ret.op = "emitObjCIVarInitDestroyDescriptor" ->
         IF ret.result.present
           THEN {Emitted(ret.result.val,
                         IF ret.isDestroyer THEN cxx_destruct
                         ELSE cxx_construct,
                         FALSE)}
           ELSE {}
    [] OTHER -> {}

IsEncodingOrNull(p) == p = NullPtr \/ p.label = "str"
IsImplementationOrNull(p) == p = NullPtr \/ p.label = "fn"

\* The selector-reference symbol of a selector text.
ReferenceSymbolOf(text) == Ptr("L_selector", text, 0)

\* C13 as claimed: every emitted method descriptor has exactly three fields,
\* in the order selector-reference, type-encoding-or-null,
\* implementation-or-null, and the first is the selector-reference symbol of
\* the declaration's selector.
C13_SelectorReferenceFirst ==
  \A e \in EmittedDescriptors :
    /\ Len(e.descriptor.fields) = 3
    /\ e.descriptor.fields[1] = ReferenceSymbolOf(e.text)
    /\ IGM.ObjCSelectorRefs[e.text] = ReferenceSymbolOf(e.text)
    /\ IsEncodingOrNull(e.descriptor.fields[2])
    /\ IsImplementationOrNull(e.descriptor.fields[3])

\* C13 as amended: every emitted method descriptor has exactly three fields,
\* in the order selector, type-encoding-or-null, implementation; the first
\* is the method-name symbol of the declaration's selector, and the third is
\* the implementation or null unless the declaration is an accessor of a
\* property whose type has no foreign encoding.
C13_MethodNameFirst ==
  \A e \in EmittedDescriptors :
    /\ Len(e.descriptor.fields) = 3
    /\ e.descriptor.fields[1] = NameSymbolOf(e.text)
    /\ IGM.ObjCMethodNames[e.text] = NameSymbolOf(e.text)
    /\ HoldsNameSymbol(e.text)
    /\ IsEncodingOrNull(e.descriptor.fields[2])
    /\ ~e.unencodableProperty =>
         IsImplementationOrNull(e.descriptor.fields[3])

\* The descriptor of C.init: the name symbol of init, an encoding and the
\* entry point of the initializer.
C13_Witness ==
  /\ ret.op = "emitObjCMethodDescriptor"
  /\ DeclPool[ret.decl].name = "C.init"
  /\ ret.val.fields[1] = NameSymbolOf(init)
  /\ ret.val.fields[2].label = "str"
  /\ ret.val.fields[3] = EntryPoint("C.init", "Initializer")
  /\ IGM.ObjCSelectorRefs[init] = NullPtr

\* The names of the declarations of protocols that can have an entry point:
\* methods, initializers and accessors.
ProtocolMembers ==
  ({DeclPool[d].name :
      d \in {i \in DOMAIN DeclPool : /\ DeclPool[i].inProtocol
                                     /\ DeclPool[i].declKind # "DestructorDecl"}}
     \cup {StoragePool[i].getter.name :
             i \in {j \in DOMAIN StoragePool : StoragePool[j].inProtocol}})
    \cup {StoragePool[i].setter.name :
            i \in {j \in DOMAIN StoragePool : StoragePool[j].inProtocol}}

\* The descriptor of an accessor of a property has a selector symbol, and an
\* implementation as its context decides.
AccessorDescriptorOk(descriptor, property, accessor) ==
  /\ descriptor.fields[1] = NameSymbolOf(accessor.selector)
  /\ HoldsNameSymbol(accessor.selector)
  /\ descriptor.fields[3] = AccessorImplementation(property, accessor)
  /\ ~property.inProtocol => IsLocated(accessor.name, "Func")

\* C14: the descriptor of a method, an initializer or an accessor declared in
\* a protocol has a null implementation and its selector symbol, and no entry
\* point of a member of a protocol is ever looked up or marked; outside a
\* protocol the implementation is the located entry point, marked internal
\* and unnamed; the entry point of a destructor is always looked up.
C14_ProtocolMembersHaveNoImplementation ==
  /\ \A f \in IGM.Functions : f.key[1] \notin ProtocolMembers
  /\ ret.op = "emitObjCMethodDescriptor" =>
       LET method == DeclPool[ret.decl] IN
       /\ ret.val.fields[1] = NameSymbolOf(SelectorTextOf(method))
       /\ HoldsNameSymbol(SelectorTextOf(method))
       /\ ret.val.fields[3] = ImplementationOf(method)
       /\ ret.val.fields[3] # NullPtr =>
            IsLocated(method.name, RefKindOf(method))
  /\ ret.op \in {"emitObjCPropertyMethodDescriptors",
                 "emitObjCSubscriptMethodDescriptors"} =>
       LET property == StoragePool[ret.decl] IN
       /\ ~ret.getter.isNull
       /\ AccessorDescriptorOk(ret.getter, property, property.getter)
       /\ ~ret.setter.isNull =>
            AccessorDescriptorOk(ret.setter, property, property.setter)

\* The hook of a class, as the third field of its descriptor.
HookOf(class, isDestroyer) ==
  Ptr("fn", <<class.name, IF isDestroyer THEN "IVarDestroyer"
                          ELSE "IVarInitializer">>, 0)

\* A descriptor is returned exactly for a hook that exists; its selector is
\* .cxx_destruct or .cxx_construct and its implementation the hook.
C15_DescriptorOfTheHook ==
  ret.op = "emitObjCIVarInitDestroyDescriptor" =>
    LET class == ClassPool[ret.class]
        exists == IF ret.isDestroyer THEN class.hasIVarDestroyer
                  ELSE class.hasIVarInitializer
        text == IF ret.isDestroyer
                  THEN <<".", "c", "x", "x", "_", "d", "e", "s", "t", "r",
                         "u", "c", "t">>
                  ELSE <<".", "c", "x", "x", "_", "c", "o", "n", "s", "t",
                         "r", "u", "c", "t">>
    IN /\ ret.result.present <=> exists
       /\ ~ret.result.present => ret.result.val.isNull
       /\ ret.result.present =>
            /\ ret.result.val.fields[1] = NameSymbolOf(text)
            /\ HoldsNameSymbol(text)
            /\ ret.result.val.fields[3] = HookOf(class, ret.isDestroyer)

\* A call that returns no descriptor leaves the caches and the module as
\* they were.
C15_AbsentAddsNothing ==
  (/\ ret'.op = "emitObjCIVarInitDestroyDescriptor"
   /\ ~ret'.result.present) =>
    /\ IGM'.ObjCMethodNames = IGM.ObjCMethodNames
    /\ IGM'.ObjCSelectorRefs = IGM.ObjCSelectorRefs
    /\ IGM'.Module = IGM.Module

\* C15: emitObjCIVarInitDestroyDescriptor returns an absent result, and adds
\* no selector to the caches, when the class has no such hook; when it has,
\* the descriptor's selector is .cxx_destruct for the destroyer and
\* .cxx_construct for the initializer and its implementation is the hook.
C15_IVarInitDestroyDescriptor ==
  /\ [](C15_DescriptorOfTheHook)
  /\ [][C15_AbsentAddsNothing]_vars

\* Class E has an initializer hook and no destroyer hook: after the
\* descriptor of the first, the request for the second returned nothing.
C15_Witness ==
  /\ ret.op = "emitObjCIVarInitDestroyDescriptor"
  /\ ClassPool[ret.class].name = "E"
  /\ ret.isDestroyer
  /\ ~ret.result.present
  /\ IGM.ObjCMethodNames[cxx_construct] # NullPtr
  /\ IGM.ObjCMethodNames[cxx_destruct] = NullPtr

\* C16: emitObjCPropertyMethodDescriptors and
\* emitObjCSubscriptMethodDescriptors always return a getter descriptor that
\* is not null, and a setter descriptor that is not null exactly when the
\* property or subscript is settable, and no assertion stops them.
C16_SetterExactlyWhenSettable ==
  ret.op \in {"emitObjCPropertyMethodDescriptors",
              "emitObjCSubscriptMethodDescriptors"} =>
    /\ ~ret.fatal
    /\ ~ret.getter.isNull
    /\ ~ret.setter.isNull <=> StoragePool[ret.decl].isSettable

----------------------------------------------------------------------------
(* Partial applications: C17, C18, C19.                                    *)

\* The places of a sequence of instructions that do op to arg.
Places(code, op, arg) ==
  {i \in DOMAIN code : code[i].op = op /\ code[i].arg = arg}

PlacesOf(code, op) == {i \in DOMAIN code : code[i].op = op}

\* C17 as claimed: for a receiver whose convention is owned, building the
\* partial application and calling the forwarder once retains the receiver
\* exactly once, at the construction of the closure, and releases exactly
\* once, at the exit of the forwarder.
C17_RetainedAtConstruction ==
  (/\ ret.op = "forwarder returned"
   /\ ret.application.convention = "Direct_Owned") =>
    LET code == ret.application.code
        executed == ret.executed
    IN /\ Cardinality(Places(code, "retain", ret.application.self)) = 1
       /\ PlacesOf(executed, "retain") = {}
       /\ Cardinality(PlacesOf(executed, "release")) = 1
       /\ PlacesOf(code, "release") = {}

\* C17 as amended: for a receiver whose convention is owned, the
\* construction of the closure retains and releases nothing, and one call of
\* the forwarder retains the receiver exactly once, when it loads it from
\* the closure, and releases exactly once, the closure context, after the
\* message was sent and right before it returns.
C17_RetainedByForwarder ==
  (/\ ret.op = "forwarder returned"
   /\ ret.application.convention = "Direct_Owned") =>
    LET code == ret.application.code
        executed == ret.executed
        n == Len(executed)
    IN /\ PlacesOf(code, "retain") = {}
       /\ PlacesOf(code, "release") = {}
       /\ PlacesOf(executed, "retain") = {2}
       /\ executed[1] = Instr("load", LoadedSelf, <<>>)
       /\ executed[2] = Instr("retain", LoadedSelf, <<>>)
       /\ PlacesOf(executed, "release") = {n - 1}
       /\ executed[n - 1] = Instr("release", ContextParam, <<>>)
       /\ executed[n].op = "ret"
       /\ \E i \in 3..(n - 2) : executed[i].op = "call"

\* The forwarder of C.foo, self owned, result direct, ran load, retain, call,
\* release, ret.
C17_Witness ==
  /\ ret.op = "forwarder returned"
  /\ ret.application.convention = "Direct_Owned"
  /\ DeclPool[ret.application.decl].name = "C.foo"
  /\ ~ret.application.indirectResult
  /\ Len(ret.executed) = 5
  /\ ret.executed[2].op = "retain"
  /\ ret.executed[3].op = "call"
  /\ ret.executed[4].op = "release"

\* C18 as claimed: emitObjCPartialApplication initializes the captured field
\* with a copy of the receiver (a retain) when the convention of self is
\* owned or guaranteed, and with the receiver as it is (no retain) when it is
\* unowned.
C18_CopiedAtConstruction ==
  (ret.op = "emitObjCPartialApplication" /\ ~ret.fatal) =>
    /\ Cardinality(PlacesOf(ret.code, "store")) = 1
    /\ ret.convention \in {"Direct_Owned", "Direct_Guaranteed"} =>
         Cardinality(Places(ret.code, "retain", ret.self)) = 1
    /\ ret.convention = "Direct_Unowned" => PlacesOf(ret.code, "retain") = {}

\* C18 as amended: emitObjCPartialApplication initializes the captured field
\* with the receiver as it is (no retain) whatever the convention of self;
\* the forwarder loads the receiver as a copy (a retain) when the convention
\* is owned or guaranteed and as a take (no retain) when it is unowned, and
\* any other convention is a fatal error.
C18_CopiedByForwarder ==
  ret.op = "emitObjCPartialApplication" =>
    /\ ret.code = <<Instr("alloc", ClosureData, <<>>),
                    Instr("store", ret.self, <<>>)>>
    /\ ret.fatal <=>
         ret.convention \notin {"Direct_Owned", "Direct_Guaranteed",
                                "Direct_Unowned"}
    /\ ~ret.fatal =>
         /\ ret.forwarder[1] = Instr("load", LoadedSelf, <<>>)
         /\ ret.convention \in {"Direct_Owned", "Direct_Guaranteed"} =>
              Places(ret.forwarder, "retain", LoadedSelf) = {2}
         /\ ret.convention = "Direct_Unowned" =>
              PlacesOf(ret.forwarder, "retain") = {}

\* A partial application with self guaranteed: nothing retained where the
\* closure is built, a retain after the load in the forwarder.
C18_Witness ==
  /\ ret.op = "emitObjCPartialApplication"
  /\ ret.convention = "Direct_Guaranteed"
  /\ ~ret.fatal
  /\ PlacesOf(ret.code, "retain") = {}
  /\ ret.forwarder[2] = Instr("retain", LoadedSelf, <<>>)

\* The forwarder releases the context exactly once, after the call of the
\* messenger and before its one return, which ends it.
ReleasesContextOnce(body) ==
  LET n == Len(body) IN
  /\ PlacesOf(body, "ret") = {n}
  /\ PlacesOf(body, "release") = Places(body, "release", ContextParam)
  /\ Cardinality(PlacesOf(body, "release")) = 1
  /\ Cardinality(PlacesOf(body, "call")) = 1
  /\ \A c \in PlacesOf(body, "call"), r \in PlacesOf(body, "release") :
       c < r /\ r < n

\* C19: on every exit path of the forwarder, the return of a direct result
\* and the completion of an indirect result, the closure context is released
\* exactly once, after the message send was emitted and before the return.
C19_ContextReleasedOnceBeforeReturn ==
  /\ (ret.op = "emitObjCPartialApplication" /\ ~ret.fatal) =>
       /\ ReleasesContextOnce(ret.forwarder)
       /\ ret.forwarder[Len(ret.forwarder)].arg =
            (IF ret.indirectResult THEN "void" ELSE "result")
  /\ ret.op = "forwarder returned" => ReleasesContextOnce(ret.executed)

\* A forwarder with an indirect result ran: call, release of the context,
\* return of nothing.
C19_Witness ==
  /\ ret.op = "forwarder returned"
  /\ ret.application.indirectResult
  /\ LET n == Len(ret.executed) IN
     /\ ret.executed[n - 2].op = "call"
     /\ ret.executed[n - 1] = Instr("release", ContextParam, <<>>)
     /\ ret.executed[n] = Instr("ret", "void", <<>>)

----------------------------------------------------------------------------
(* Which declarations get a descriptor: C20.                               *)

\* The method is marked for Objective-C on its own.
IsMarked(method) == method.isObjC \/ method.isIBAction

\* The method is one that is never exported: an accessor, a generic method
\* or a method of a bound generic type.
IsNeverExported(method) == method.isAccessor \/ method.generic # "none"

\* The methods of the chain that are eligible on their own account: marked
\* and not of the kind never exported.
EligibleAt(chain) ==
  {k \in DOMAIN chain : IsMarked(chain[k]) /\ ~IsNeverExported(chain[k])}

\* C20 as claimed: requiresObjCMethodDescriptor is true of any method whose
\* override chain reaches a method of which it is true.
C20_OverrideOfEligibleIsEligible ==
  ret.op = "requiresObjCMethodDescriptor" =>
    \A k \in 2..Len(ret.chain) :
      requiresObjCMethodDescriptor(ret.chain, k) => ret.val

\* C20 as amended: requiresObjCMethodDescriptor is true of a method exactly
\* when its override chain reaches a method marked objc or IBAction and
\* neither that method, nor the method itself, nor any between them is an
\* accessor, generic or of a bound generic type.
C20_OverrideThroughExportableMethods ==
  ret.op = "requiresObjCMethodDescriptor" =>
    (ret.val <=>
       \E k \in EligibleAt(ret.chain) :
         \A j \in 1..(k - 1) : ~IsNeverExported(ret.chain[j]))

\* A method that is not marked overrides one that is not marked, which
\* overrides an objc method: it gets a descriptor.
C20_Witness ==
  /\ ret.op = "requiresObjCMethodDescriptor"
  /\ Len(ret.chain) = 3
  /\ ~IsMarked(ret.chain[1]) /\ ~IsMarked(ret.chain[2])
  /\ ret.chain[3].isObjC
  /\ ret.val

----------------------------------------------------------------------------
(* The four predicates and the overridden declaration: C21.                *)

PredicateOps ==
  {"requiresObjCMethodDescriptor",
   "requiresObjCMethodDescriptor(ConstructorDecl)",
   "requiresObjCPropertyDescriptor", "requiresObjCSubscriptDescriptor"}

\* What the predicate that was asked says of the declaration chain[i].
PredicateAt(op, chain, i) ==
  CASE op = "requiresObjCMethodDescriptor" ->
         requiresObjCMethodDescriptor(chain, i)
    [] op = "requiresObjCMethodDescriptor(ConstructorDecl)" ->
         requiresObjCMethodDescriptorForConstructor(chain, i)
    [] op = "requiresObjCPropertyDescriptor" ->
         requiresObjCPropertyDescriptor(chain, i)
    [] op = "requiresObjCSubscriptDescriptor" ->
         requiresObjCSubscriptDescriptor(chain, i)

\* C21 as claimed: whichever of the four predicates is asked about a
\* declaration that overrides another, it answers what it answers about the
\* overridden declaration, and it always answers.
C21_OverriddenDeclarationFirst ==
  ret.op \in PredicateOps =>
    /\ ret.val \in BOOLEAN
    /\ Len(ret.chain) > 1 => ret.val = PredicateAt(ret.op, ret.chain, 2)

\* The declaration at the end of the chain, which overrides nothing.
Root(chain) == chain[Len(chain)]

\* What the property and subscript predicates answer: no declaration of the
\* chain is in a bound generic type, and the one that overrides nothing is
\* objc and, if of function type, a block.
StorageAnswer(chain) ==
  /\ \A j \in DOMAIN chain : ~chain[j].inBoundGeneric
  /\ Root(chain).isObjC
  /\ Root(chain).type.isFunction => Root(chain).type.isBlock

\* What the method predicate answers: false of a method never exported,
\* else true of a marked method, and only then what the overridden
\* declarations say.
MethodAnswer(chain) ==
  IF IsNeverExported(chain[1]) THEN FALSE
  ELSE IF IsMarked(chain[1]) THEN TRUE
  ELSE \E k \in EligibleAt(chain) :
         k > 1 /\ \A j \in 2..(k - 1) : ~IsNeverExported(chain[j])

\* What the initializer predicate answers: the initializer itself is not
\* generic and is objc, whatever it overrides.
ConstructorAnswer(chain) == chain[1].generic = "none" /\ chain[1].isObjC

\* C21 as amended: every predicate answers on every finite chain; the
\* property and subscript predicates go to the overridden declaration
\* before looking at objc and the type, the method predicate goes to it
\* only after its own exclusions and its own mark, and the initializer
\* predicate never goes to it.
C21_PropagationPerPredicate ==
  ret.op \in PredicateOps =>
    /\ ret.val \in BOOLEAN
    /\ ret.val =
         CASE ret.op = "requiresObjCMethodDescriptor" ->
                MethodAnswer(ret.chain)
           [] ret.op = "requiresObjCMethodDescriptor(ConstructorDecl)" ->
                ConstructorAnswer(ret.chain)
           [] OTHER -> StorageAnswer(ret.chain)

\* An initializer that is not objc overrides an objc initializer and gets no
\* descriptor, and a property that is not objc overrides an objc property
\* and gets one: this state is the first of the two.
C21_Witness ==
  /\ ret.op = "requiresObjCMethodDescriptor(ConstructorDecl)"
  /\ Len(ret.chain) = MaxOverrides + 1
  /\ ~ret.chain[1].isObjC
  /\ \A j \in DOMAIN ret.chain : ret.chain[j].generic = "none"
  /\ \A j \in 2..Len(ret.chain) : ret.chain[j].isObjC
  /\ ~ret.val

----------------------------------------------------------------------------
(* Properties and subscripts of function type: C22.                        *)

\* C22: a property or subscript of function type that gets a descriptor is
\* of block type, whether it overrides another declaration or not.
C22_FunctionTypedOnlyIfBlock ==
  ret.op \in {"requiresObjCPropertyDescriptor",
              "requiresObjCSubscriptDescriptor"} =>
    (ret.val /\ ret.chain[1].type.isFunction => ret.chain[1].type.isBlock)

----------------------------------------------------------------------------
(* The reference cell and the method name it points at: C23.               *)

\* Every selector text of the selector-reference cache is in the method-name
\* cache, its cell is in the module, and the cell is initialized with the
\* method-name symbol the cache holds for the same text.
C23_CellPointsAtCachedName ==
  \A s \in SelectorTexts :
    IGM.ObjCSelectorRefs[s] # NullPtr =>
      /\ IGM.ObjCMethodNames[s] # NullPtr
      /\ SelectorRefGlobals(s) # {}
      /\ \A g \in SelectorRefGlobals(s) : g.init = IGM.ObjCMethodNames[s]

\* A request for a method name leaves the selector-reference cache and the
\* protocol cache as they were.
C23_NameRequestAddsNoReference ==
  (ret = Idle /\ ret'.op = "getAddrOfObjCMethodName") =>
    /\ IGM'.ObjCSelectorRefs = IGM.ObjCSelectorRefs
    /\ IGM'.ObjCProtocols = IGM.ObjCProtocols

\* C23: in every reachable state each selector text of the
\* selector-reference cache is also in the method-name cache and its cell is
\* initialized with exactly the cached method-name symbol of that text, and
\* a method-name request never adds an entry to the selector-reference or
\* protocol caches.
C23_ReferencesPointAtNames ==
  /\ []C23_CellPointsAtCachedName
  /\ [][C23_NameRequestAddsNoReference]_vars

\* A reference was asked for after the name of the same selector: only the
\* cell was created, and it points at the name that was there; the name of
\* another selector is cached too, and no reference came with it.
C23_Witness ==
  /\ ret.op = "getAddrOfObjCSelectorRef"
  /\ ret.created = 1
  /\ \E g \in SelectorRefGlobals(ret.key) :
       AddrOf(g) = ret.val /\ g.init = IGM.ObjCMethodNames[ret.key]
  /\ \E s \in SelectorTexts \ {ret.key} :
       IGM.ObjCMethodNames[s] # NullPtr /\ IGM.ObjCSelectorRefs[s] = NullPtr

----------------------------------------------------------------------------
(* The super-dispatch record: C24.                                         *)

\* The reference is to an instance method: an initializer, a deallocator or
\* a declaration that is an instance member.
RefersToInstanceMethod(r) ==
  \/ r.refKind = "Initializer"
  \/ r.refKind = "Deallocator"
  \/ DeclPool[r.decl].isInstanceMember

\* C24: the super-dispatch record holds the receiver in field 0 and the
\* search class in field 1; the search class is the class metadata of the
\* search type for an initializer, a deallocator or an instance member, and
\* the metaclass object of the class of the search type otherwise.
C24_SuperRecord ==
  (ret.op = "addObjCMethodCallImplicitArguments" /\ ~ret.searchType.isNull) =>
    /\ ret.args[1].tag = "objc_super"
    /\ ObjCSuperFields(ret.args[1])[1] = ret.self
    /\ ObjCSuperFields(ret.args[1])[2] =
         IF RefersToInstanceMethod(ret)
           THEN Ptr("class_metadata", <<ret.searchType.class>>, 0)
           ELSE Ptr("metaclass", <<ret.searchType.class>>, 0)

\* A super send of a type-level method that is neither an initializer nor a
\* deallocator: the record holds the metaclass of the class searched from.
C24_Witness ==
  /\ ret.op = "addObjCMethodCallImplicitArguments"
  /\ ~ret.searchType.isNull
  /\ ret.searchType.class = "Derived"
  /\ ret.refKind = "Func"
  /\ ~DeclPool[ret.decl].isInstanceMember
  /\ ret.args[1].search = Ptr("metaclass", <<"Derived">>, 0)

----------------------------------------------------------------------------
(* One argument that is not a tuple: C25.                                  *)

\* The same signature with its one argument as a tuple of one element.
AsTuple(T) == MethodType(InputType("tuple", T.input.elts), T.result)

\* <returnCode><2P+s>@0:<P><argCode><2P>, or null when the result or the
\* argument has no encoding.
SingleArgumentText(T) ==
  LET P == IGM.PointerSize
      arg == T.input.elts[1]
  IN IF ~IsEncodable(T) THEN NullPtr
     ELSE Ptr("str",
              ((((getObjCEncodingForType(T.result)
                    \o Decimal(2 * P + getObjCEncodingTypeSize(IGM, arg)))
                   \o <<"@", "0", ":">>) \o Decimal(P))
                 \o getObjCEncodingForType(arg)) \o Decimal(2 * P),
              0)

\* C25: for a signature of one argument that is not a tuple, parenthesized
\* or not, whatever its types, GetObjCEncodingForMethodType gives what it
\* gives for the tuple of that one argument:
\* <returnCode><2P+s>@0:<P><argCode><2P>, or null when either type has no
\* encoding.
C25_SingleArgumentAsTupleOfOne ==
  (/\ ret.op = "GetObjCEncodingForMethodType"
   /\ ret.T.input.tag \in {"paren", "plain"}) =>
    /\ ret.val = GetObjCEncodingForMethodType(IGM, AsTuple(ret.T)).val
    /\ ret.val = SingleArgumentText(ret.T)

\* On a target with pointers of 8 bytes, (Struct) -> Int32 with the
\* argument in parentheses was encoded as i32@0:8{S=qq}16.
C25_Witness ==
  /\ ret.op = "GetObjCEncodingForMethodType"
  /\ IGM.PointerSize = 8
  /\ ret.T = MethodType(InputType("paren", <<"Struct">>), "Int32")
  /\ ret.val =
       Ptr("str",
           <<"i", "3", "2", "@", "0", ":", "8",
             "{", "S", "=", "q", "q", "}", "1", "6">>,
           0)

----------------------------------------------------------------------------
(* The forwarding stub of a partial application: C26.                      *)

\* The one call of a forwarder's body.
CallOf(body) == body[CHOOSE i \in PlacesOf(body, "call") : TRUE]

\* The residual parameters as the forwarder receives them: in the order of
\* the method's own, after the result slot when the result is indirect.
ResidualArguments(application) ==
  [i \in 1..Len(application.rest) |->
     Param(application.rest[i],
           i + (IF application.indirectResult THEN 1 ELSE 0))]

\* C26: the forwarding stub reloads the receiver from the closure as a copy
\* exactly when the receiver's convention is owned or guaranteed and as a
\* take exactly when it is unowned; for an indirect convention (in, out,
\* inout) its generation ends in a fatal error and no forwarder/closure pair
\* is returned; the stub sends with kind Normal and passes the receiver, the
\* selector, then the residual parameters in their original order.
C26_ForwardingStub ==
  ret.op = "emitObjCPartialApplication" =>
    /\ ret.fatal <=>
         ret.convention \in {"Indirect_In", "Indirect_Out", "Indirect_Inout"}
    /\ ret.fatal => (ret.out = <<>> /\ ret.forwarder = <<>>)
    /\ ~ret.fatal =>
         /\ Len(ret.out) = 2
         /\ PlacesOf(ret.forwarder, "load") = {1}
         /\ (Places(ret.forwarder, "retain", LoadedSelf) = {2}) <=>
              ret.convention \in {"Direct_Owned", "Direct_Guaranteed"}
         /\ (PlacesOf(ret.forwarder, "retain") = {}) <=>
              ret.convention = "Direct_Unowned"
         /\ Cardinality(PlacesOf(ret.forwarder, "call")) = 1
         /\ LET call == CallOf(ret.forwarder) IN
            /\ call.arg \in {"objc_msgSend", "objc_msgSend_stret"}
            /\ Len(call.args) = 2 + Len(ret.rest)
            /\ call.args[1] = Value("receiver", LoadedSelf, NullPtr, NullPtr)
            /\ call.args[2] =
                 Value("load", "", NullPtr,
                       IGM.ObjCSelectorRefs[SelectorOfCall(ret)])
            /\ SubSeq(call.args, 3, Len(call.args)) = ResidualArguments(ret)

\* A stub for a method with an indirect result, a guaranteed receiver and
\* two residual parameters of different types: the receiver is copied and
\* the call passes receiver, selector, then the two in their order.
C26_Witness ==
  /\ ret.op = "emitObjCPartialApplication"
  /\ ~ret.fatal
  /\ ret.convention = "Direct_Guaranteed"
  /\ ret.indirectResult
  /\ ret.rest = <<"i64", "%objc_object*">>
  /\ Len(CallOf(ret.forwarder).args) = 4
  /\ CallOf(ret.forwarder).args[3] = Param("i64", 2)
  /\ CallOf(ret.forwarder).args[4] = Param("%objc_object*", 3)

====
